---- MODULE Spec2Model ----
(***************************************************************************)
(* A model of the NID-Egypt service: the generic data-access layer         *)
(* (bases/base_orm.py), the operation lifecycle built on it                *)
(* (bases/business_logic.py), the client service (apps/clients) and the    *)
(* rate-limiting and request-tracking middlewares (core/middlewares.py).   *)
(*                                                                         *)
(* Values are integers.  NULL (0) is Python's None; record ids, interned   *)
(* name strings and generated API keys are positive.  Time is counted in   *)
(* whole seconds.                                                          *)
(***************************************************************************)
EXTENDS Integers, Sequences, FiniteSets, TLC

VARIABLES
    clients,            \* rows of table "clients"   (apps/clients/models.py)
    usages,             \* rows of table "api_usage" (apps/egypt_national_id/models.py)
    keysIssued,         \* number of API keys generate_api_key has produced
    tombstoned,         \* rows of a table whose record type has deleted_at
    pc,                 \* per task: where its lifecycle call stands
    call,               \* per task: the call it runs (verb, service, payload, pk)
    steps,              \* per task: the lifecycle steps the call has run, in order
    writes,             \* per task: committed store mutations of the call
    outcome,            \* per task: "none", "ok" or the exception raised
    inst,               \* per task: the instance the call loaded or persisted
    result,             \* per task: the rows or the flag the call returned
    now,                \* time.time(), in whole seconds
    settings,           \* settings.WINDOW_SECONDS and settings.MAX_REQUESTS
    RATE_LIMIT_STORAGE, \* identity -> timestamps of its admitted checks
    req,                \* per request: its headers, route and progress
    admitted,           \* per identity: the times of all its admitted checks
    scenario,           \* what one caller's requests, made in turn, met
    body,               \* national_id of a request body, as received
    today,              \* date.today(), as <<year, month, day>>
    nid                 \* the validation request: progress, status, data returned

storeVars == <<clients, usages, keysIssued, tombstoned>>
taskVars  == <<pc, call, steps, writes, outcome, inst, result>>
nidVars   == <<body, today, nid>>
reqVars   == <<now, settings, RATE_LIMIT_STORAGE, req, admitted, scenario, nidVars>>
vars      == <<clients, usages, keysIssued, tombstoned, pc, call, steps, writes,
               outcome, inst, result,
               now, settings, RATE_LIMIT_STORAGE, req, admitted, scenario,
               body, today, nid>>

(***************************************************************************)
(* Bounds of the model.                                                    *)
(***************************************************************************)
NumTasks == 2
NumRequests == 2
MaxTime == 3
MaxScenarioRequests == 9
MaxScenarioWaits == 8

Tasks == 1..NumTasks

Requests == 1..NumRequests

\* The waits of the acceptance scenario: a second, or most of a window.
Waits == {1, 56}

NULL  == 0
Names == {1, 2}

(***************************************************************************)
(* The mapped tables.                                                      *)
(***************************************************************************)
\* Paths ("/clients/", "/nid-egypt/") and methods, as the codes the usage
\* table stores for them.
CLIENTS == 1
NID_EGYPT == 2
POST == 1
GET == 2

\* Query(le=100): the ceiling the signatures declare for limit.
le == 100

Client == "Client"

ApiUsage == "ApiUsage"

\* The columns of each table; description, created_at (clients) and duration,
\* timestamp (api_usage) carry no constraint and take part in no decision.
\* A record type that declares deleted_at: what
\* hasattr(self.repo.model, "deleted_at") asks of the model a service is
\* built over.
Tombstoned == "Tombstoned"

Columns(model) ==
    IF model = Client THEN {"id", "name", "api_key"}
    ELSE IF model = Tombstoned THEN {"id", "name", "deleted_at"}
    ELSE {"id", "client_id", "path", "method", "status_code"}

\* inspect(model).primary_key[0]: a Column object, not its name.
pk_column(model) == <<"Column", "id">>

UniqueColumns(model) == IF model = Client THEN {"name", "api_key"} ELSE {}

NotNullColumns(model) == IF model = Client THEN {"name"} ELSE {}

\* inspect(model).relationships: Client.usages joins clients.id (local, the
\* primary key) to api_usage.client_id; ApiUsage.client joins
\* api_usage.client_id (local) to clients.id.
Relationships(model) ==
    IF model = Client
    THEN <<[local |-> "id", local_is_pk |-> TRUE,
            entity |-> ApiUsage, remote |-> "client_id"]>>
    ELSE IF model = Tombstoned THEN << >>
    ELSE <<[local |-> "client_id", local_is_pk |-> FALSE,
            entity |-> Client, remote |-> "id"]>>

Table(model, cl, us) == IF model = Client THEN cl ELSE us

\* dict.get(key): None for a key the dict does not hold.
Get(d, k) == IF k \in DOMAIN d THEN d[k] ELSE NULL

\* The keys of a dict as the str objects they are.
Keys(d) == {<<"str", k>> : k \in DOMAIN d}

\* model_dump(exclude_none=True)
ExcludeNone(d) == [k \in {j \in DOMAIN d : d[j] # NULL} |-> d[k]]

Max(S) == IF S = {} THEN 0 ELSE CHOOSE x \in S : \A y \in S : y <= x

(***************************************************************************)
(* The store: an insert or update commits only a row that satisfies the    *)
(* constraints the models declare.                                         *)
(***************************************************************************)
\* A store whose tables carry no unique constraint.
IntegrityOK_without_unique(model, row, others, cl) ==
    /\ \A o \in others : o.id # row.id
    /\ \A c \in NotNullColumns(model) : row[c] # NULL
    /\ model = ApiUsage =>
          (row.client_id = NULL \/ \E c \in cl : c.id = row.client_id)

IntegrityOK(model, row, others, cl) ==
    /\ \A o \in others : o.id # row.id
    /\ \A c \in UniqueColumns(model) :
          row[c] # NULL => \A o \in others : o[c] # row[c]
    /\ \A c \in NotNullColumns(model) : row[c] # NULL
    /\ model = ApiUsage =>
          (row.client_id = NULL \/ \E c \in cl : c.id = row.client_id)

\* The row an INSERT of these values makes: the store assigns the key of a
\* row that names none.
NewRow(model, data, rows) ==
    [c \in Columns(model) |->
        IF c = "id"
        THEN IF Get(data, "id") # NULL THEN data["id"]
             ELSE Max({r.id : r \in rows}) + 1
        ELSE Get(data, c)]

(***************************************************************************)
(* BaseORM.validate_relations and BaseORM.validate_unique_fields           *)
(***************************************************************************)
RECURSIVE RelationsFrom(_, _, _, _, _)
RelationsFrom(model, data_dict, i, cl, us) ==
    IF i > Len(Relationships(model)) THEN "ok"
    ELSE LET rel     == Relationships(model)[i]
             col_val == Get(data_dict, rel.local)
         IN  IF rel.local_is_pk
             THEN RelationsFrom(model, data_dict, i + 1, cl, us)
             ELSE IF col_val = NULL THEN "KeyError"
             ELSE IF ~ \E r \in Table(rel.entity, cl, us) : r[rel.remote] = col_val
                  THEN "ValueError"
             ELSE RelationsFrom(model, data_dict, i + 1, cl, us)

\* A validate_relations that takes a null reference for no reference: only
\* a value that names a missing row fails.
validate_relations_optional(model, data_dict, cl, us) ==
    IF \E i \in DOMAIN Relationships(model) :
          LET rel == Relationships(model)[i]
          IN  /\ ~ rel.local_is_pk
              /\ Get(data_dict, rel.local) # NULL
              /\ ~ \E r \in Table(rel.entity, cl, us) :
                       r[rel.remote] = Get(data_dict, rel.local)
    THEN "ValueError"
    ELSE "ok"

validate_relations(model, data_dict, cl, us) ==
    RelationsFrom(model, data_dict, 1, cl, us)

\* validate_unique_fields looking at the api_key column only.
validate_unique_fields_one_column(model, data_dict, cl, us) ==
    IF pk_column(model) \in Keys(data_dict) THEN "ValueError"
    ELSE IF /\ model = Client
            /\ Get(data_dict, "api_key") # NULL
            /\ \E r \in cl : r["api_key"] = Get(data_dict, "api_key")
         THEN "ValueError"
    ELSE "ok"

validate_unique_fields(model, data_dict, cl, us) ==
    IF pk_column(model) \in Keys(data_dict) THEN "ValueError"
    ELSE IF \E column \in UniqueColumns(model) :
               /\ Get(data_dict, column) # NULL
               /\ \E r \in Table(model, cl, us) : r[column] = Get(data_dict, column)
         THEN "ValueError"
    ELSE "ok"

(***************************************************************************)
(* The services: ClientService (apps/clients/services.py) and the default  *)
(* lifecycle over each table.                                              *)
(***************************************************************************)
Services == {"ClientService", "ClientOps", "ApiUsageOps"}

Model(svc) ==
    IF svc = "ApiUsageOps" THEN ApiUsage
    ELSE IF svc = "TombstonedOps" THEN Tombstoned
    ELSE Client

\* The payloads a caller can send, per service: model_dump() of the input
\* schema.  ServiceClientCreate declares name (required); the default
\* lifecycle takes any schema, with or without the primary key.
Payloads(svc) ==
    IF svc = "ClientService" THEN {[name |-> n] : n \in Names}
    ELSE IF svc = "ClientOps"
    THEN {[name |-> NULL], [name |-> 1], [id |-> 2, name |-> 2]}
    ELSE {[client_id |-> c] : c \in {NULL, 1, 2}}

\* The pre_create of CreateOperation for every service: no key is generated.
pre_create_without_key(svc, data, issued) == ExcludeNone(data)

\* pre_create: CreateOperation's drops the None values; ClientService's also
\* adds the generated api_key (a key never produced before).
pre_create(svc, data, issued) ==
    IF svc = "ClientService"
    THEN [k \in DOMAIN ExcludeNone(data) \cup {"api_key"} |->
             IF k = "api_key" THEN issued + 1 ELSE data[k]]
    ELSE ExcludeNone(data)

\* A pre_update that hands the payload on as it came: model_dump().
pre_update_with_none(data) == data

pre_update(data) == ExcludeNone(data)

Raise(t, exc) ==
    /\ outcome' = [outcome EXCEPT ![t] = exc]
    /\ pc' = [pc EXCEPT ![t] = "done"]

\* None where an instance is expected: a get that found no row.
NoInstance == [id |-> NULL]

NoCall == [data |-> << >>, svc |-> "ClientService", verb |-> "none", pk |-> NULL]

\* The stores a run starts from: empty, or holding what earlier requests
\* left (a client made by ClientService, a usage record that names it).
FirstClient == [id |-> 1, name |-> 1, api_key |-> 1]

FirstUsage ==
    [id |-> 1, client_id |-> 1, path |-> CLIENTS, method |-> GET,
     status_code |-> 200]

InitStore ==
    /\ \/ clients = {} /\ usages = {} /\ keysIssued = 0
       \/ clients = {FirstClient} /\ usages = {} /\ keysIssued = 1
       \/ clients = {FirstClient} /\ usages = {FirstUsage} /\ keysIssued = 1
    /\ tombstoned = {}

(***************************************************************************)
(* Requests: routes, headers and the rate limiter's pure part.             *)
(***************************************************************************)
\* create_client, list_clients and scan_nid.
Routes ==
    {[path |-> CLIENTS, method |-> POST], [path |-> CLIENTS, method |-> GET],
     [path |-> NID_EGYPT, method |-> POST]}

\* request.client.host of the callers, and the x-api-key values they send
\* (NULL: no header).
Hosts == {-1}

ApiKeyHeaders == {NULL, 1}

Identities == (ApiKeyHeaders \ {NULL}) \cup Hosts

\* core.settings as the service is configured here, and as the acceptance
\* scenario of the rate limiter configures it.
Settings == [WINDOW_SECONDS |-> 2, MAX_REQUESTS |-> 2]

ScenarioSettings == [WINDOW_SECONDS |-> 60, MAX_REQUESTS |-> 5]

\* [t for t in timestamps if now - t < settings.WINDOW_SECONDS]
Recent(timestamps, t, st) ==
    SelectSeq(timestamps, LAMBDA x : t - x < st.WINDOW_SECONDS)

\* A limiter that lets one request too many through.
rate_limit_dependency_off_by_one(storage, api_key, t, st) ==
    LET timestamps == Recent(storage[api_key], t, st)
    IN  IF Len(timestamps) > st.MAX_REQUESTS
        THEN [status_code |-> 429, storage |-> storage]
        ELSE [status_code |-> 0,
              storage |-> [storage EXCEPT ![api_key] = Append(timestamps, t)]]

\* rate_limit_dependency: 429 (HTTPException) with the storage untouched, or
\* admission with the timestamp recorded.  api_key is the x-api-key header
\* or, without one, the caller's host.
rate_limit_dependency(storage, api_key, t, st) ==
    LET timestamps == Recent(storage[api_key], t, st)
    IN  IF Len(timestamps) >= st.MAX_REQUESTS
        THEN [status_code |-> 429, storage |-> storage]
        ELSE [status_code |-> 0,
              storage |-> [storage EXCEPT ![api_key] = Append(timestamps, t)]]

\* BaseORM.first(**filters): the first row that equals every filter naming
\* an attribute of the model; None without one.
first(model, filters, cl, us) ==
    LET conditions == DOMAIN filters \cap Columns(model)
        rows == {r \in Table(model, cl, us) : \A k \in conditions : r[k] = filters[k]}
    IN  IF rows = {} THEN NoInstance
        ELSE CHOOSE r \in rows : \A o \in rows : r.id <= o.id

(***************************************************************************)
(* The queries of BaseORM: get, all, filter, first, exists.                *)
(***************************************************************************)
\* hasattr(self.model, attr), for the names callers pass here: column names
\* and names the model does not have.
hasattr(model, attr) == attr \in Columns(model)

\* Conditions that turn an unknown attribute into a condition no row meets.
_filter_conditions_strict(model, filtered_fields) ==
    {<<attr, IF hasattr(model, attr) THEN filtered_fields[attr] ELSE -1>> :
        attr \in DOMAIN filtered_fields}

\* _filter_conditions: one equality per field the model has; a field it
\* does not have is logged and dropped.
_filter_conditions(model, filtered_fields) ==
    {<<attr, filtered_fields[attr]>> :
        attr \in {a \in DOMAIN filtered_fields : hasattr(model, a)}}

\* select(self.model).where(*conditions); column == None is IS NULL.
Where(model, rows, conditions) ==
    {r \in rows : \A c \in conditions : c[1] \in Columns(model) /\ r[c[1]] = c[2]}

\* The order of two rows under ORDER BY column; equal keys keep the order
\* of the primary key, which is also the order of a query without ORDER BY.
Before(a, b, column, descending) ==
    IF a[column] = b[column] THEN a.id < b.id
    ELSE IF descending THEN a[column] > b[column]
    ELSE a[column] < b[column]

\* The rows as the sequence ORDER BY yields: laid out by primary key, then
\* sorted by the column.
Ordered(rows, column, descending) ==
    IF rows = {} THEN << >>
    ELSE LET byId == [i \in 1..Max({r.id : r \in rows}) |->
                         IF \E r \in rows : r.id = i
                         THEN CHOOSE r \in rows : r.id = i
                         ELSE NoInstance]
             IsRow(r) == r # NoInstance
             Less(a, b) == Before(a, b, column, descending)
         IN  SortSeq(SelectSeq(byId, IsRow), Less)

\* The attribute a string names: order_by is kept as its tokens, "-name" as
\* <<"-", "name">>, None and "" as << >>.
Name(tokens) == IF Len(tokens) = 1 THEN tokens[1] ELSE ""

\* An ordering that takes every name for ascending.
_apply_ordering_ascending(model, rows, order_by) ==
    IF order_by = << >> THEN Ordered(rows, "id", FALSE)
    ELSE LET column == IF Head(order_by) = "-" THEN Name(Tail(order_by))
                       ELSE Name(order_by)
         IN  IF hasattr(model, column) THEN Ordered(rows, column, FALSE)
             ELSE Ordered(rows, "id", FALSE)

\* _apply_ordering: ascending, descending after a leading "-", and no
\* ordering at all for no name or a name the model does not have.
_apply_ordering(model, rows, order_by) ==
    IF order_by = << >> THEN Ordered(rows, "id", FALSE)
    ELSE IF Head(order_by) = "-"
    THEN IF hasattr(model, Name(Tail(order_by)))
         THEN Ordered(rows, Name(Tail(order_by)), TRUE)
         ELSE Ordered(rows, "id", FALSE)
    ELSE IF hasattr(model, Name(order_by))
         THEN Ordered(rows, Name(order_by), FALSE)
         ELSE Ordered(rows, "id", FALSE)

\* query.offset(offset).limit(limit)
Page(seq, offset, limit) ==
    SubSeq(seq, offset + 1,
           IF offset + limit < Len(seq) THEN offset + limit ELSE Len(seq))

\* BaseORM.get: the row of that primary key, or None.
repo_get(rows, pk) ==
    IF \E r \in rows : r.id = pk THEN CHOOSE r \in rows : r.id = pk
    ELSE NoInstance

\* BaseORM.all
repo_all(model, rows, offset, limit, order_by) ==
    Page(_apply_ordering(model, rows, order_by), offset, limit)

\* BaseORM.filter
repo_filter(model, rows, offset, limit, order_by, filters) ==
    Page(_apply_ordering(model,
                         Where(model, rows, _filter_conditions(model, filters)),
                         order_by),
         offset, limit)

\* BaseORM.first over any table, and BaseORM.exists.
repo_first(model, rows, filters) ==
    LET found == Where(model, rows, _filter_conditions(model, filters))
    IN  IF found = {} THEN NoInstance ELSE Ordered(found, "id", FALSE)[1]

repo_exists(model, rows, filters) == repo_first(model, rows, filters).id # NULL

(***************************************************************************)
(* The national ID validator.  A string is a sequence of characters, each  *)
(* a one-character string; a date is <<year, month, day>>.  An optional    *)
(* field left None holds the empty value of its type (NoDate, NoLocation,  *)
(* "", << >>, NULL).                                                       *)
(***************************************************************************)
Digits == {"0", "1", "2", "3", "4", "5", "6", "7", "8", "9"}

DigitValue(c) ==
    CASE c = "0" -> 0 [] c = "1" -> 1 [] c = "2" -> 2 [] c = "3" -> 3
      [] c = "4" -> 4 [] c = "5" -> 5 [] c = "6" -> 6 [] c = "7" -> 7
      [] c = "8" -> 8 [] c = "9" -> 9

\* int(s) of a string of digits
RECURSIVE int(_)
int(s) ==
    IF s = << >> THEN 0
    ELSE 10 * int(SubSeq(s, 1, Len(s) - 1)) + DigitValue(s[Len(s)])

\* s[a:b]
Slice(s, a, b) == SubSeq(s, a + 1, IF b < Len(s) THEN b ELSE Len(s))

\* v.strip()
strip(v) ==
    LET kept == {i \in 1..Len(v) : v[i] # " "}
    IN  IF kept = {} THEN << >>
        ELSE SubSeq(v, CHOOSE i \in kept : \A j \in kept : i <= j, Max(kept))

\* What a call gives: the value it returns, or the error it raises.
Return(x)       == [raised |-> FALSE, value |-> x]
ValueError(msg) == [raised |-> TRUE, value |-> msg]

\* re.match(r'^\d+$', v): a validator that does not count the digits.
validate_id_format_any_length(v) ==
    LET s == strip(v)
    IN  IF Len(s) > 0 /\ \A i \in 1..Len(s) : s[i] \in Digits
        THEN Return(s)
        ELSE ValueError("National ID must be exactly 14 digits")

validate_id_format(v) ==
    LET s == strip(v)
    IN  IF Len(s) = 14 /\ \A i \in 1..Len(s) : s[i] \in Digits
        THEN Return(s)
        ELSE ValueError("National ID must be exactly 14 digits")

GOVERNORATE_NAMES ==
    <<"0", "1">> :> "Cairo" @@ <<"0", "2">> :> "Alexandria" @@
    <<"0", "3">> :> "Port Said" @@ <<"0", "4">> :> "Suez" @@
    <<"1", "1">> :> "Damietta" @@ <<"1", "2">> :> "Dakahlia" @@
    <<"1", "3">> :> "Sharqia" @@ <<"1", "4">> :> "Qalyubia" @@
    <<"1", "5">> :> "Kafr El-Sheikh" @@ <<"1", "6">> :> "Gharbia" @@
    <<"1", "7">> :> "Menoufia" @@ <<"1", "8">> :> "Beheira" @@
    <<"1", "9">> :> "Ismailia" @@ <<"2", "1">> :> "Giza" @@
    <<"2", "2">> :> "Beni Suef" @@ <<"2", "3">> :> "Fayoum" @@
    <<"2", "4">> :> "Minya" @@ <<"2", "5">> :> "Asyut" @@
    <<"2", "6">> :> "Sohag" @@ <<"2", "7">> :> "Qena" @@
    <<"2", "8">> :> "Aswan" @@ <<"2", "9">> :> "Luxor" @@
    <<"3", "1">> :> "Red Sea" @@ <<"3", "2">> :> "New Valley" @@
    <<"3", "3">> :> "Matrouh" @@ <<"3", "4">> :> "North Sinai" @@
    <<"3", "5">> :> "South Sinai" @@ <<"8", "8">> :> "Outside Egypt"

\* date(year, month, day) accepts the days of the proleptic Gregorian
\* calendar and raises ValueError for anything else.
IsLeap(year) == year % 4 = 0 /\ (year % 100 # 0 \/ year % 400 = 0)

DaysIn(year, month) ==
    IF month = 2 THEN (IF IsLeap(year) THEN 29 ELSE 28)
    ELSE IF month \in {4, 6, 9, 11} THEN 30 ELSE 31

IsDate(year, month, day) ==
    /\ year \in 1..9999
    /\ month \in 1..12
    /\ day \in 1..DaysIn(year, month)

\* a < b for tuples of integers of one length, as Python orders them
TupleLess(a, b) ==
    \E i \in 1..Len(a) :
        /\ a[i] < b[i]
        /\ \A j \in 1..(i - 1) : a[j] = b[j]

NoDate     == [year |-> 0, month |-> 0, day |-> 0, full_date |-> <<0, 0, 0>>, age |-> 0]
NoLocation == [governorate_code |-> << >>, governorate_name |-> ""]

\* A reading of the first digit in which every digit but 3 means 1900.
extract_century_lenient(national_id) ==
    IF int(<<national_id[1]>>) = 3 THEN Return(2000) ELSE Return(1900)

extract_century(national_id) ==
    LET first_digit == int(<<national_id[1]>>)
    IN  IF first_digit = 2 THEN Return(1900)
        ELSE IF first_digit = 3 THEN Return(2000)
        ELSE ValueError("Invalid century indicator")

extract_date_of_birth(national_id, day_today) ==
    LET century == extract_century(national_id)
        year  == century.value + int(Slice(national_id, 1, 3))
        month == int(Slice(national_id, 3, 5))
        day   == int(Slice(national_id, 5, 7))
        age   == day_today[1] - year
                 - (IF TupleLess(<<day_today[2], day_today[3]>>, <<month, day>>)
                    THEN 1 ELSE 0)
    IN  IF century.raised THEN ValueError("Invalid date of birth")
        ELSE IF ~ IsDate(year, month, day) THEN ValueError("Invalid date of birth")
        ELSE Return([year |-> year, month |-> month, day |-> day,
                     full_date |-> <<year, month, day>>, age |-> age])

extract_governorate(national_id) ==
    LET gov_code == Slice(national_id, 7, 9)
    IN  IF gov_code \notin DOMAIN GOVERNORATE_NAMES
        THEN ValueError("Invalid governorate code")
        ELSE Return([governorate_code |-> gov_code,
                     governorate_name |-> GOVERNORATE_NAMES[gov_code]])

\* A reading that takes the four digits before the governorate code's last.
extract_gender_shifted(national_id) ==
    IF int(Slice(national_id, 8, 12)) % 2 = 1 THEN Return("male") ELSE Return("female")

extract_gender(national_id) ==
    LET sequence == int(Slice(national_id, 9, 13))
    IN  IF sequence % 2 = 1 THEN Return("male") ELSE Return("female")

\* A check digit that is checked: the digits sum to a multiple of ten.
validate_checksum_mod10(national_id) ==
    (int(Slice(national_id, 0, 7)) + int(Slice(national_id, 7, 14))) % 10 = 0

validate_checksum(national_id) == TRUE

validate_and_extract(national_id, day_today) ==
    LET dob      == extract_date_of_birth(national_id, day_today)
        location == extract_governorate(national_id)
        gender   == extract_gender(national_id)
        century  == extract_century(national_id)
        e1 == IF dob.raised THEN <<dob.value>>
              ELSE (IF TupleLess(day_today, dob.value.full_date)
                    THEN <<"Birth date cannot be in the future">> ELSE << >>)
                   \o (IF dob.value.age > 150
                       THEN <<"Age exceeds reasonable limit">> ELSE << >>)
        e2 == e1 \o (IF location.raised THEN <<location.value>> ELSE << >>)
        e3 == e2 \o (IF gender.raised THEN <<"Failed to extract gender">> ELSE << >>)
        e4 == e3 \o (IF century.raised THEN <<"Failed to extract metadata">> ELSE << >>)
        errors == e4 \o (IF ~ validate_checksum(national_id)
                         THEN <<"Invalid checksum">> ELSE << >>)
    IN  [national_id |-> national_id,
         century |-> IF century.raised THEN NULL ELSE century.value,
         location |-> IF location.raised THEN NoLocation ELSE location.value,
         gender |-> IF gender.raised THEN "" ELSE gender.value,
         errors |-> errors,
         is_valid |-> Len(errors) = 0,
         date_of_birth |-> IF dob.raised THEN NoDate ELSE dob.value,
         sequence_number |-> Slice(national_id, 9, 13)]

\* NationalIDData before validate_and_extract has filled it.
NoData ==
    [national_id |-> << >>, century |-> NULL, location |-> NoLocation,
     gender |-> "", errors |-> << >>, is_valid |-> FALSE,
     date_of_birth |-> NoDate, sequence_number |-> << >>]

\* No validation request made: nothing received, nothing answered.  invoked
\* records that validate_and_extract was called.
NoValidation ==
    [data |-> NoData, status_code |-> 0, national_id |-> << >>, at |-> "idle",
     invoked |-> FALSE]

\* A request not yet received.  Beside the locals of the code (api_key, host,
\* route, client, name, timestamps, status_code) it carries what
\* the caller got (returned) and a record of what was done for it: tracked
\* (dispatch ran), lookup (the store was queried for the key), checks and
\* appended (limiter checks made, timestamps recorded), handled (the route
\* handler ran), usage (usage rows written), usage_failed.
NoRequest ==
    [name |-> NULL, api_key |-> NULL, status_code |-> 0, timestamps |-> << >>,
     at |-> "idle", host |-> -1, route |-> [path |-> CLIENTS, method |-> GET],
     client |-> NULL, returned |-> 0,
     tracked |-> FALSE, lookup |-> FALSE, checks |-> 0, appended |-> 0,
     handled |-> FALSE, usage |-> 0, usage_failed |-> FALSE]

\* The acceptance scenario before its first request: requests made, waits
\* made, the time and the answer of the latest request, the time of the
\* latest admitted request and of the one admitted before the latest request.
NoScenario ==
    [status_code |-> 0, count |-> 0, waits |-> 0, prev_admitted |-> -1,
     last_admitted |-> -1, time |-> 0]

\* Nothing returned yet: no flag, no rows.
NoResult == [rows |-> << >>, flag |-> FALSE]

InitTasks ==
    /\ pc = [t \in Tasks |-> "idle"]
    /\ call = [t \in Tasks |-> NoCall]
    /\ steps = [t \in Tasks |-> << >>]
    /\ writes = [t \in Tasks |-> 0]
    /\ outcome = [t \in Tasks |-> "none"]
    /\ inst = [t \in Tasks |-> NoInstance]
    /\ result = [t \in Tasks |-> NoResult]

InitRequests ==
    /\ now = 0
    /\ RATE_LIMIT_STORAGE = [i \in Identities |-> << >>]
    /\ req = [r \in Requests |-> NoRequest]
    /\ admitted = [i \in Identities |-> << >>]
    /\ scenario = NoScenario
    /\ body = << >>
    /\ today = <<2026, 11, 2>>
    /\ nid = NoValidation

Init ==
    /\ InitStore
    /\ InitTasks
    /\ InitRequests
    /\ settings = Settings

\* create_validation / update_validation, first half: validate_relations
\* runs as the call is made; a failure raises out of the call.
validate_relations_step(t, verb, svc, data, pk) ==
    LET r == validate_relations(Model(svc), data, clients, usages)
    IN  /\ pc[t] = "idle"
        /\ call' = [call EXCEPT ![t] =
                        [data |-> data, svc |-> svc, verb |-> verb, pk |-> pk]]
        /\ steps' = [steps EXCEPT ![t] = <<verb \o "_validation">>]
        /\ IF r = "ok"
           THEN /\ pc' = [pc EXCEPT ![t] = "validate_unique_fields"]
                /\ UNCHANGED outcome
           ELSE Raise(t, r)
        /\ UNCHANGED <<storeVars, writes, inst, result, reqVars>>

\* CreateOperation.create is called.
create(t) ==
    \E svc \in Services : \E data \in Payloads(svc) :
        validate_relations_step(t, "create", svc, data, NULL)

\* UpdateOperation.update is called.
update(t) ==
    \E svc \in {"ClientOps", "ApiUsageOps"} : \E data \in Payloads(svc) :
        \E pk \in {1, 2} :
            validate_relations_step(t, "update", svc, data, pk)

\* A lifecycle that inserts before it looks at the validation result.
validation_after_insert(t) ==
    LET c   == call[t]
        m   == Model(c.svc)
        r   == validate_unique_fields(m, c.data, clients, usages)
        row == NewRow(m, ExcludeNone(c.data), Table(m, clients, usages))
    IN  /\ pc[t] = "validate_unique_fields"
        /\ IF r = "ok"
           THEN /\ pc' = [pc EXCEPT ![t] = "pre_" \o c.verb]
                /\ UNCHANGED <<outcome, clients, usages, writes>>
           ELSE /\ Raise(t, r)
                /\ clients' = IF m = Client THEN clients \cup {row} ELSE clients
                /\ usages' = IF m = ApiUsage THEN usages \cup {row} ELSE usages
                /\ writes' = [writes EXCEPT ![t] = @ + 1]
        /\ UNCHANGED <<keysIssued, tombstoned, call, steps, inst, result, reqVars>>

\* create_validation / update_validation, second half:
\* validate_unique_fields queries the store again, so other tasks may have
\* run in between.  A failure raises out of the call.
validation(t) ==
    LET c == call[t]
        r == validate_unique_fields(Model(c.svc), c.data, clients, usages)
    IN  /\ pc[t] = "validate_unique_fields"
        /\ IF r = "ok"
           THEN /\ pc' = [pc EXCEPT ![t] = "pre_" \o c.verb]
                /\ UNCHANGED outcome
           ELSE Raise(t, r)
        /\ UNCHANGED <<storeVars, call, steps, writes, inst, result, reqVars>>

\* pre_create, then _create: BaseORM.create adds the instance and commits;
\* the store refuses a row that breaks a declared constraint
\* (IntegrityError).  Then on_create (a no-op) and the projection.
_create(t) ==
    LET c    == call[t]
        m    == Model(c.svc)
        data == pre_create(c.svc, c.data, keysIssued)
        row  == NewRow(m, data, Table(m, clients, usages))
    IN  /\ pc[t] = "pre_create"
        /\ keysIssued' = IF c.svc = "ClientService" THEN keysIssued + 1 ELSE keysIssued
        /\ pc' = [pc EXCEPT ![t] = "done"]
        /\ IF IntegrityOK(m, row, Table(m, clients, usages), clients)
           THEN /\ clients' = IF m = Client THEN clients \cup {row} ELSE clients
                /\ usages' = IF m = ApiUsage THEN usages \cup {row} ELSE usages
                /\ writes' = [writes EXCEPT ![t] = @ + 1]
                /\ inst' = [inst EXCEPT ![t] = row]
                /\ steps' = [steps EXCEPT ![t] =
                                @ \o <<"pre_create", "_create", "on_create", "project">>]
                /\ outcome' = [outcome EXCEPT ![t] = "ok"]
           ELSE /\ steps' = [steps EXCEPT ![t] = @ \o <<"pre_create", "_create">>]
                /\ outcome' = [outcome EXCEPT ![t] = "IntegrityError"]
                /\ UNCHANGED <<clients, usages, writes, inst>>
        /\ UNCHANGED <<tombstoned, call, result, reqVars>>

\* pre_update, then the first half of _update: the instance is loaded by
\* primary key (BaseORM.get).
_update(t) ==
    LET c == call[t]
        rows == {r \in Table(Model(c.svc), clients, usages) : r.id = c.pk}
    IN  /\ pc[t] = "pre_update"
        /\ steps' = [steps EXCEPT ![t] = @ \o <<"pre_update", "_update">>]
        /\ inst' = [inst EXCEPT ![t] = IF rows = {} THEN NoInstance
                                           ELSE CHOOSE r \in rows : TRUE]
        /\ pc' = [pc EXCEPT ![t] = "save"]
        /\ UNCHANGED <<storeVars, call, writes, outcome, result, reqVars>>

\* The second half of _update: setattr for every payload item, then
\* BaseORM.save merges, commits and refreshes.  The flush updates, on the
\* stored row the instance was loaded from, the columns whose value differs
\* from the loaded one and leaves the row's other columns as they are
\* stored; the refresh reads the row back.  Then on_update (a no-op) and the
\* projection.
save(t) ==
    LET c       == call[t]
        m       == Model(c.svc)
        data    == pre_update(c.data)
        table   == Table(m, clients, usages)
        changed == {k \in DOMAIN data : data[k] # inst[t][k]}
        current == CHOOSE r \in table : r.id = inst[t].id
        new     == [k \in Columns(m) |-> IF k \in changed THEN data[k] ELSE current[k]]
        others  == {r \in table : r.id # inst[t].id}
    IN  /\ pc[t] = "save"
        /\ pc' = [pc EXCEPT ![t] = "done"]
        /\ IF inst[t].id = NULL
           THEN /\ outcome' = [outcome EXCEPT ![t] =
                      IF DOMAIN data # {} THEN "AttributeError" ELSE "UnmappedInstanceError"]
                /\ UNCHANGED <<clients, usages, writes, inst, steps>>
           ELSE IF ~ \E r \in table : r.id = inst[t].id
           THEN /\ outcome' = [outcome EXCEPT ![t] =
                      IF changed # {} THEN "StaleDataError" ELSE "InvalidRequestError"]
                /\ UNCHANGED <<clients, usages, writes, inst, steps>>
           ELSE IF /\ IntegrityOK(m, new, others, clients)
                   /\ (m = Client /\ new.id # inst[t].id) =>
                          ~ \E u \in usages : u.client_id = inst[t].id
           THEN /\ clients' = IF m = Client THEN others \cup {new} ELSE clients
                /\ usages' = IF m = ApiUsage THEN others \cup {new} ELSE usages
                /\ writes' = [writes EXCEPT ![t] = IF changed = {} THEN @ ELSE @ + 1]
                /\ inst' = [inst EXCEPT ![t] = new]
                /\ steps' = [steps EXCEPT ![t] = @ \o <<"on_update", "project">>]
                /\ outcome' = [outcome EXCEPT ![t] = "ok"]
           ELSE /\ outcome' = [outcome EXCEPT ![t] = "IntegrityError"]
                /\ UNCHANGED <<clients, usages, writes, inst, steps>>
        /\ UNCHANGED <<keysIssued, tombstoned, call, result, reqVars>>

Next ==
    \E t \in Tasks :
        \/ create(t)
        \/ update(t)
        \/ validation(t)
        \/ _create(t)
        \/ _update(t)
        \/ save(t)

Spec == Init /\ [][Next]_vars

(***************************************************************************)
(* The same calls made one after the other: a call starts only when no     *)
(* other call is under way.                                                *)
(***************************************************************************)
Quiet == \A u \in Tasks : pc[u] \in {"idle", "done"}

NextSeq ==
    \E t \in Tasks :
        \/ Quiet /\ create(t)
        \/ Quiet /\ update(t)
        \/ validation(t)
        \/ _create(t)
        \/ _update(t)
        \/ save(t)

SpecSeq == Init /\ [][NextSeq]_vars

(***************************************************************************)
(* Retrieve, Delete, List and Filter.                                      *)
(***************************************************************************)
\* The table a repository queries.
Rows(model) ==
    IF model = Tombstoned THEN tombstoned ELSE Table(model, clients, usages)

\* A get without the existence check: on_get runs and the projection of
\* None fails.
get_unchecked(t, svc, pk) ==
    LET instance == repo_get(Rows(Model(svc)), pk)
    IN  /\ pc[t] = "idle"
        /\ call' = [call EXCEPT ![t] =
                        [data |-> << >>, svc |-> svc, verb |-> "get", pk |-> pk]]
        /\ pc' = [pc EXCEPT ![t] = "done"]
        /\ steps' = [steps EXCEPT ![t] =
                        <<"pre_get", "_get", "get_validation", "on_get", "project">>]
        /\ outcome' = [outcome EXCEPT ![t] =
                          IF instance = NoInstance THEN "ValidationError" ELSE "ok"]
        /\ inst' = [inst EXCEPT ![t] = instance]
        /\ UNCHANGED <<storeVars, writes, result, reqVars>>

\* RetrieveOperation.get: pre_get, _get (BaseORM.get), get_validation, which
\* raises KeyError when nothing was found, then on_get and the projection.
get(t, svc, pk) ==
    LET instance == repo_get(Rows(Model(svc)), pk)
    IN  /\ pc[t] = "idle"
        /\ call' = [call EXCEPT ![t] =
                        [data |-> << >>, svc |-> svc, verb |-> "get", pk |-> pk]]
        /\ pc' = [pc EXCEPT ![t] = "done"]
        /\ IF instance = NoInstance
           THEN /\ steps' = [steps EXCEPT ![t] = <<"pre_get", "_get", "get_validation">>]
                /\ outcome' = [outcome EXCEPT ![t] = "KeyError"]
                /\ UNCHANGED inst
           ELSE /\ steps' = [steps EXCEPT ![t] =
                      <<"pre_get", "_get", "get_validation", "on_get", "project">>]
                /\ outcome' = [outcome EXCEPT ![t] = "ok"]
                /\ inst' = [inst EXCEPT ![t] = instance]
        /\ UNCHANGED <<storeVars, writes, result, reqVars>>

\* A delete that hands the primary key to BaseORM.delete without loading
\* the instance first: session.delete(None) raises for an absent key.
delete_unchecked(t, svc, pk) ==
    LET instance == repo_get(Rows(Model(svc)), pk)
    IN  /\ pc[t] = "idle"
        /\ call' = [call EXCEPT ![t] =
                        [data |-> << >>, svc |-> svc, verb |-> "delete", pk |-> pk]]
        /\ inst' = [inst EXCEPT ![t] = instance]
        /\ steps' = [steps EXCEPT ![t] =
                        <<"delete_validation", "pre_delete", "_delete">>]
        /\ IF instance = NoInstance
           THEN Raise(t, "UnmappedInstanceError")
           ELSE /\ pc' = [pc EXCEPT ![t] = "repo_delete"]
                /\ UNCHANGED outcome
        /\ UNCHANGED <<storeVars, writes, result, reqVars>>

\* A delete that starts at its pre-hook, with no validation step.
delete_unvalidated(t, svc, pk) ==
    LET instance == repo_get(Rows(Model(svc)), pk)
    IN  /\ pc[t] = "idle"
        /\ call' = [call EXCEPT ![t] =
                        [data |-> << >>, svc |-> svc, verb |-> "delete", pk |-> pk]]
        /\ inst' = [inst EXCEPT ![t] = instance]
        /\ IF instance = NoInstance
           THEN /\ steps' = [steps EXCEPT ![t] =
                      <<"pre_delete", "_delete", "on_delete", "return">>]
                /\ outcome' = [outcome EXCEPT ![t] = "ok"]
                /\ pc' = [pc EXCEPT ![t] = "done"]
           ELSE /\ steps' = [steps EXCEPT ![t] = <<"pre_delete", "_delete">>]
                /\ pc' = [pc EXCEPT ![t] = "repo_delete"]
                /\ UNCHANGED outcome
        /\ UNCHANGED <<storeVars, writes, result, reqVars>>

\* DeleteOperation.delete: delete_validation, pre_delete, then the first
\* half of _delete, which loads the instance (BaseORM.get).  With no
\* instance _delete returns False, on_delete runs and the flag is returned.
delete(t, svc, pk) ==
    LET instance == repo_get(Rows(Model(svc)), pk)
    IN  /\ pc[t] = "idle"
        /\ call' = [call EXCEPT ![t] =
                        [data |-> << >>, svc |-> svc, verb |-> "delete", pk |-> pk]]
        /\ inst' = [inst EXCEPT ![t] = instance]
        /\ IF instance = NoInstance
           THEN /\ steps' = [steps EXCEPT ![t] =
                      <<"delete_validation", "pre_delete", "_delete", "on_delete",
                        "return">>]
                /\ outcome' = [outcome EXCEPT ![t] = "ok"]
                /\ pc' = [pc EXCEPT ![t] = "done"]
           ELSE /\ steps' = [steps EXCEPT ![t] =
                      <<"delete_validation", "pre_delete", "_delete">>]
                /\ pc' = [pc EXCEPT ![t] = "repo_delete"]
                /\ UNCHANGED outcome
        /\ UNCHANGED <<storeVars, writes, result, reqVars>>

\* The second half of _delete: self.repo.delete(instance).  BaseORM.delete
\* receives the instance as pk and no model, so it calls
\* session.get(self.model, instance): the instance is bound as the value of
\* the primary key and the statement fails (StatementError, or the
\* DBAPIError under it that wraps the driver's error).  Nothing is deleted
\* or committed, and on_delete is not reached.
repo_delete(t) ==
    /\ pc[t] = "repo_delete"
    /\ Raise(t, "StatementError")
    /\ UNCHANGED <<storeVars, call, steps, writes, inst, result, reqVars>>

\* ListOperation.list: list_validation, pre_list, _list, which is
\* BaseORM.filter with deleted_at=None, on_list, and the projection of each
\* instance.
list(t, svc, offset, limit, order_by) ==
    /\ pc[t] = "idle"
    /\ call' = [call EXCEPT ![t] =
                    [data |-> [order_by |-> order_by, offset |-> offset, limit |-> limit],
                     svc |-> svc, verb |-> "list", pk |-> NULL]]
    /\ steps' = [steps EXCEPT ![t] =
                    <<"list_validation", "pre_list", "_list", "on_list", "project">>]
    /\ result' = [result EXCEPT ![t].rows =
                    repo_filter(Model(svc), Rows(Model(svc)), offset, limit, order_by,
                                [deleted_at |-> NULL])]
    /\ outcome' = [outcome EXCEPT ![t] = "ok"]
    /\ pc' = [pc EXCEPT ![t] = "done"]
    /\ UNCHANGED <<storeVars, writes, inst, reqVars>>

\* An injection that keeps a deleted_at the caller supplied.
Injected_unless_supplied(model, filters) ==
    IF hasattr(model, "deleted_at") /\ "deleted_at" \notin DOMAIN filters
    THEN [k \in DOMAIN filters \cup {"deleted_at"} |->
             IF k = "deleted_at" THEN NULL ELSE filters[k]]
    ELSE filters

\* The filter map FilterOperation.filter works with: deleted_at is set to
\* None in it when the model has that attribute.
Injected(model, filters) ==
    IF hasattr(model, "deleted_at")
    THEN [k \in DOMAIN filters \cup {"deleted_at"} |->
             IF k = "deleted_at" THEN NULL ELSE filters[k]]
    ELSE filters

\* A filter_validation that lets every key through.
filter_validation_lenient(model, filters) == "ok"

\* filter_validation: ValueError for a key that is not an attribute of the
\* model.
filter_validation(model, filters) ==
    IF \E filter_key \in DOMAIN filters : ~ hasattr(model, filter_key)
    THEN "ValueError" ELSE "ok"

\* FilterOperation.filter: the tombstone injection, filter_validation,
\* pre_filter, _filter, which is BaseORM.filter with the filter map as
\* keyword arguments, on_filter, and the projection of each instance.
filter(t, svc, filters, offset, limit, order_by) ==
    LET m == Model(svc)
        f == Injected(m, filters)
    IN  /\ pc[t] = "idle"
        /\ call' = [call EXCEPT ![t] =
                        [data |-> [filters |-> filters, order_by |-> order_by,
                                   offset |-> offset, limit |-> limit],
                         svc |-> svc, verb |-> "filter", pk |-> NULL]]
        /\ pc' = [pc EXCEPT ![t] = "done"]
        /\ IF filter_validation(m, f) = "ok"
           THEN /\ steps' = [steps EXCEPT ![t] =
                      <<"filter_validation", "pre_filter", "_filter", "on_filter",
                        "project">>]
                /\ result' = [result EXCEPT ![t].rows =
                                repo_filter(m, Rows(m), offset, limit, order_by, f)]
                /\ outcome' = [outcome EXCEPT ![t] = "ok"]
           ELSE /\ steps' = [steps EXCEPT ![t] = <<"filter_validation">>]
                /\ outcome' = [outcome EXCEPT ![t] = filter_validation(m, f)]
                /\ UNCHANGED result
        /\ UNCHANGED <<storeVars, writes, inst, reqVars>>

\* The status an exception raised out of a route gets: value_error_handler
\* answers a ValueError with 422; no handler is registered for any other
\* class the lifecycle raises, so the server answers 500.
exception_handler(exc) == IF exc = "ValueError" THEN 422 ELSE 500

\* The six verbs, called on the default lifecycle over Client and ApiUsage.
NextCrud ==
    \E t \in Tasks :
        \/ create(t)
        \/ update(t)
        \/ validation(t)
        \/ _create(t)
        \/ _update(t)
        \/ save(t)
        \/ \E svc \in {"ClientOps", "ApiUsageOps"} : \E pk \in {1, 2} : get(t, svc, pk)
        \/ \E svc \in {"ClientOps", "ApiUsageOps"} : \E pk \in {1, 2} : delete(t, svc, pk)
        \/ repo_delete(t)
        \/ \E svc \in {"ClientOps", "ApiUsageOps"} : list(t, svc, 0, le, << >>)
        \/ \E svc \in {"ClientOps", "ApiUsageOps"} :
               \E filters \in {[id |-> 1], [nope |-> 1]} :
                   filter(t, svc, filters, 0, le, << >>)

SpecCrud == Init /\ [][NextCrud]_vars

(***************************************************************************)
(* Calls of the data-access layer itself, and a store to query.            *)
(***************************************************************************)
\* One call of a BaseORM query on the repository of a service's model.
Query(t, svc, verb, filters, offset, limit, order_by) ==
    /\ pc[t] = "idle"
    /\ call' = [call EXCEPT ![t] =
                    [data |-> [filters |-> filters, order_by |-> order_by,
                               offset |-> offset, limit |-> limit],
                     svc |-> svc, verb |-> verb, pk |-> NULL]]
    /\ steps' = [steps EXCEPT ![t] = <<verb>>]
    /\ outcome' = [outcome EXCEPT ![t] = "ok"]
    /\ pc' = [pc EXCEPT ![t] = "done"]
    /\ UNCHANGED <<storeVars, writes, reqVars>>

\* BaseORM.all is called.
all(t, svc, offset, limit, order_by) ==
    /\ Query(t, svc, "repo.all", << >>, offset, limit, order_by)
    /\ result' = [result EXCEPT ![t].rows =
                    repo_all(Model(svc), Rows(Model(svc)), offset, limit, order_by)]
    /\ UNCHANGED inst

\* BaseORM.filter is called.
where(t, svc, filters, offset, limit, order_by) ==
    /\ Query(t, svc, "repo.filter", filters, offset, limit, order_by)
    /\ result' = [result EXCEPT ![t].rows =
                    repo_filter(Model(svc), Rows(Model(svc)), offset, limit,
                                order_by, filters)]
    /\ UNCHANGED inst

\* BaseORM.first is called.
first_of(t, svc, filters) ==
    /\ Query(t, svc, "repo.first", filters, 0, 1, << >>)
    /\ inst' = [inst EXCEPT ![t] = repo_first(Model(svc), Rows(Model(svc)), filters)]
    /\ UNCHANGED result

\* BaseORM.exists is called.
exists(t, svc, filters) ==
    /\ Query(t, svc, "repo.exists", filters, 0, 1, << >>)
    /\ result' = [result EXCEPT ![t].flag =
                    repo_exists(Model(svc), Rows(Model(svc)), filters)]
    /\ UNCHANGED inst

\* The pages asked for, as <<offset, limit>>, and the order_by strings:
\* None, "name", "-name", and two that name no attribute.
Pages == {<<0, le>>, <<1, 2>>}

Orders == {<< >>, <<"name">>, <<"-", "name">>, <<"nope">>, <<"-", "nope">>}

\* Filter maps: on attributes, on an unknown name, on both, and with the
\* caller's own deleted_at.
FilterMaps ==
    {<< >>, [name |-> 1], [id |-> 2, name |-> 1], [nope |-> 1],
     [name |-> 1, nope |-> 1], [deleted_at |-> 5], [name |-> 1, deleted_at |-> 5]}

NextQuery ==
    \E t \in Tasks :
        \/ \E svc \in {"ClientOps", "TombstonedOps"} : \E p \in Pages :
               \E order_by \in {<< >>, <<"-", "name">>} :
                   list(t, svc, p[1], p[2], order_by)
        \/ \E svc \in {"ClientOps", "TombstonedOps"} : \E filters \in FilterMaps :
               \E p \in Pages : filter(t, svc, filters, p[1], p[2], << >>)
        \/ \E p \in Pages : \E order_by \in Orders :
               all(t, "TombstonedOps", p[1], p[2], order_by)
        \/ \E filters \in {<< >>, [name |-> 1], [nope |-> 1], [name |-> 1, nope |-> 1]} :
               \E order_by \in {<< >>, <<"nope">>} :
                   where(t, "TombstonedOps", filters, 0, le, order_by)
        \/ \E filters \in {<< >>, [name |-> 1], [nope |-> 1], [name |-> 1, nope |-> 1]} :
               first_of(t, "TombstonedOps", filters)
        \/ \E filters \in {<< >>, [name |-> 2], [nope |-> 1], [name |-> 2, nope |-> 1]} :
               exists(t, "TombstonedOps", filters)

\* Stores with several rows, some of them tombstoned.
SecondClient == [id |-> 2, name |-> 2, api_key |-> 2]

Tombstones ==
    {[id |-> 1, name |-> 2, deleted_at |-> NULL],
     [id |-> 2, name |-> 1, deleted_at |-> NULL],
     [id |-> 3, name |-> 1, deleted_at |-> 5],
     [id |-> 4, name |-> 1, deleted_at |-> NULL]}

InitQuery ==
    /\ InitTasks /\ InitRequests /\ settings = Settings
    /\ usages = {}
    /\ \/ clients = {FirstClient, SecondClient} /\ keysIssued = 2
          /\ tombstoned = Tombstones
       \/ clients = {FirstClient} /\ keysIssued = 1
          /\ tombstoned = {r \in Tombstones : r.id > 2}

SpecQuery == InitQuery /\ [][NextQuery]_vars

(***************************************************************************)
(* BaseORM.delete called on the repository itself, next to creates and     *)
(* updates.                                                                *)
(***************************************************************************)
\* BaseORM.delete(pk) or BaseORM.delete(model=instance), up to and including
\* session.get.  Without a model and without a pk it raises KeyError; with a
\* pk, session.get loads the instance, and for a key that resolves to
\* nothing session.delete(None) raises UnmappedInstanceError.  A caller
\* that passes model= holds an instance it resolved before.
remove(t, svc, pk, by) ==
    LET instance == repo_get(Rows(Model(svc)), pk)
    IN  /\ pc[t] = "idle"
        /\ by = "model" => instance # NoInstance
        /\ call' = [call EXCEPT ![t] =
                        [data |-> [by |-> by], svc |-> svc, verb |-> "repo.delete",
                         pk |-> pk]]
        /\ steps' = [steps EXCEPT ![t] = <<"repo.delete">>]
        /\ inst' = [inst EXCEPT ![t] = instance]
        /\ IF by = "pk" /\ pk = NULL THEN Raise(t, "KeyError")
           ELSE IF instance = NoInstance THEN Raise(t, "UnmappedInstanceError")
           ELSE /\ pc' = [pc EXCEPT ![t] = "commit_delete"]
                /\ UNCHANGED outcome
        /\ UNCHANGED <<storeVars, writes, result, reqVars>>

\* A commit that deletes the client's row and leaves its usage records.
commit_delete_without_cascade(t) ==
    LET m == Model(call[t].svc)
    IN  /\ pc[t] = "commit_delete"
        /\ clients' = IF m = Client THEN {c \in clients : c.id # inst[t].id}
                      ELSE clients
        /\ usages' = IF m = ApiUsage THEN {u \in usages : u.id # inst[t].id}
                     ELSE usages
        /\ writes' = [writes EXCEPT ![t] = @ + 1]
        /\ result' = [result EXCEPT ![t].flag = TRUE]
        /\ outcome' = [outcome EXCEPT ![t] = "ok"]
        /\ pc' = [pc EXCEPT ![t] = "done"]
        /\ UNCHANGED <<keysIssued, tombstoned, call, steps, inst, reqVars>>

\* session.delete(model) and commit: the row of the instance is deleted,
\* and with a client its usage records (cascade="all, delete" on
\* Client.usages, ON DELETE CASCADE on api_usage.client_id).  A row that is
\* already gone is only warned about.  Returns True.
commit_delete(t) ==
    LET m == Model(call[t].svc)
    IN  /\ pc[t] = "commit_delete"
        /\ clients' = IF m = Client THEN {c \in clients : c.id # inst[t].id}
                      ELSE clients
        /\ usages' = IF m = Client
                     THEN {u \in usages : u.client_id # inst[t].id}
                     ELSE {u \in usages : u.id # inst[t].id}
        /\ writes' = [writes EXCEPT ![t] = @ + 1]
        /\ result' = [result EXCEPT ![t].flag = TRUE]
        /\ outcome' = [outcome EXCEPT ![t] = "ok"]
        /\ pc' = [pc EXCEPT ![t] = "done"]
        /\ UNCHANGED <<keysIssued, tombstoned, call, steps, inst, reqVars>>

NextStore ==
    \E t \in Tasks :
        \/ create(t)
        \/ update(t)
        \/ validation(t)
        \/ _create(t)
        \/ _update(t)
        \/ save(t)
        \/ \E svc \in {"ClientOps", "ApiUsageOps"} : \E pk \in {NULL, 1, 3} :
               \E by \in {"model", "pk"} : remove(t, svc, pk, by)
        \/ commit_delete(t)

\* A usage record of a request that presented no key.
AnonymousUsage ==
    [id |-> 2, client_id |-> NULL, path |-> NID_EGYPT, method |-> POST,
     status_code |-> 200]

InitStoreWithUsages ==
    /\ InitTasks /\ InitRequests /\ settings = Settings
    /\ clients = {FirstClient, SecondClient} /\ keysIssued = 2
    /\ usages = {FirstUsage, AnonymousUsage}
    /\ tombstoned = {}

SpecStore == InitStoreWithUsages /\ [][NextStore]_vars

(***************************************************************************)
(* A table with more rows than the declared ceiling of limit.              *)
(***************************************************************************)
ManyClients == {[id |-> i, name |-> i, api_key |-> i] : i \in 1..(le + 1)}

\* The limits asked for: the ceiling and one above it.
Limits == {le, le + 1}

\* list_clients calls ClientService.list(limit=limit, offset=offset) with
\* the query parameters as received; the other callers use the default
\* lifecycle and the repository directly.
NextPage ==
    \E t \in Tasks : \E offset \in {0, 1} : \E limit \in Limits :
        \/ \E svc \in {"ClientService", "ClientOps"} :
               list(t, svc, offset, limit, << >>)
        \/ \E filters \in {<< >>, [nope |-> 1]} :
               filter(t, "ClientOps", filters, offset, limit, << >>)
        \/ all(t, "ClientOps", offset, limit, << >>)
        \/ where(t, "ClientOps", << >>, offset, limit, << >>)

InitPage ==
    /\ InitTasks /\ InitRequests /\ settings = Settings
    /\ clients = ManyClients /\ usages = {} /\ keysIssued = le + 1
    /\ tombstoned = {}

SpecPage == InitPage /\ [][NextPage]_vars

(***************************************************************************)
(* The request pipeline of core/middlewares.py.  The tracking middleware   *)
(* is added after the rate limiter, so it is the outer of the two:         *)
(* dispatch -> add_rate_limiter -> route (handler) -> track_finish.        *)
(***************************************************************************)
\* request.headers.get("x-api-key", request.client.host)
Identity(q) == IF q.api_key # NULL THEN q.api_key ELSE q.host

\* The response leaves the handler side and reaches the line after
\* call_next in dispatch.
Respond(r, q, code) ==
    req' = [req EXCEPT ![r] = [q EXCEPT !.at = "track_finish", !.status_code = code]]

\* An exception no handler catches unwinds dispatch too: the caller gets the
\* server's 500 and dispatch never reaches its usage write.
Unhandled(r, q) ==
    req' = [req EXCEPT ![r] = [q EXCEPT !.at = "done", !.returned = 500]]

\* APICallTrackingMiddleware.dispatch up to call_next: look the presented
\* key up (the timer and the duration it yields are left out).  Requests are received in the order of their
\* names.
dispatch(r) ==
    /\ req[r].at = "idle"
    /\ \A o \in Requests : o < r => req[o].at # "idle"
    /\ \E h \in ApiKeyHeaders, rt \in Routes, host \in Hosts :
          LET client == IF h # NULL
                        THEN first(Client, [api_key |-> h], clients, usages)
                        ELSE NoInstance
          IN  req' = [req EXCEPT ![r] =
                        [@ EXCEPT !.at = "add_rate_limiter", !.api_key = h,
                                  !.host = host, !.route = rt,
                                  !.client = client.id,
                                  !.tracked = TRUE, !.lookup = (h # NULL)]]
    /\ UNCHANGED <<storeVars, taskVars, now, settings, nidVars, RATE_LIMIT_STORAGE,
                   admitted, scenario>>

\* One run of rate_limit_dependency for request r, whose record is q; then
\* is the record of the request once admitted.
Check(r, q, then) ==
    LET api_key == Identity(q)
        res == rate_limit_dependency(RATE_LIMIT_STORAGE, api_key, now, settings)
    IN  /\ RATE_LIMIT_STORAGE' = res.storage
        /\ IF res.status_code = 429
           THEN /\ admitted' = admitted
                /\ Respond(r, [q EXCEPT !.checks = @ + 1], 429)
           ELSE /\ admitted' = [admitted EXCEPT ![api_key] = Append(@, now)]
                /\ req' = [req EXCEPT ![r] =
                             [then EXCEPT !.checks = @ + 1, !.appended = @ + 1]]

\* A limiter that suspends between reading the list and writing it back.
add_rate_limiter_suspending(r) ==
    LET q == req[r]
        api_key == Identity(q)
    IN  \/ /\ q.at = "add_rate_limiter"
           /\ req' = [req EXCEPT ![r] =
                        [q EXCEPT !.at = "rate_limit_write",
                                  !.timestamps = Recent(RATE_LIMIT_STORAGE[api_key], now, settings)]]
           /\ UNCHANGED <<storeVars, taskVars, now, settings, nidVars,
                          RATE_LIMIT_STORAGE, admitted, scenario>>
        \/ /\ q.at = "rate_limit_write"
           /\ IF Len(q.timestamps) >= settings.MAX_REQUESTS
              THEN /\ Respond(r, [q EXCEPT !.checks = @ + 1, !.timestamps = << >>], 429)
                   /\ UNCHANGED <<RATE_LIMIT_STORAGE, admitted>>
              ELSE /\ RATE_LIMIT_STORAGE' =
                        [RATE_LIMIT_STORAGE EXCEPT ![api_key] = Append(q.timestamps, now)]
                   /\ admitted' = [admitted EXCEPT ![api_key] = Append(@, now)]
                   /\ req' = [req EXCEPT ![r] =
                                [q EXCEPT !.at = "route", !.checks = @ + 1,
                                          !.appended = @ + 1,
                                          !.timestamps = << >>]]
           /\ UNCHANGED <<storeVars, taskVars, now, settings, nidVars, scenario>>

\* add_rate_limiter: the coroutine holds no await between reading
\* RATE_LIMIT_STORAGE and writing it, so the event loop runs it as one step.
\* A rejection is answered with 429 without calling the route.
add_rate_limiter(r) ==
    /\ req[r].at = "add_rate_limiter"
    /\ Check(r, req[r], [req[r] EXCEPT !.at = "route"])
    /\ UNCHANGED <<storeVars, taskVars, now, settings, nidVars, scenario>>

\* scan_nid: the dependencies in the order of the signature (the service
\* token, then rate_limit_dependency once more), then the body, which is
\* refused with 422 or handled.
scan_nid(r) ==
    /\ req[r].at = "route"
    /\ req[r].route.path = NID_EGYPT
    /\ \E authorized \in BOOLEAN :
          IF ~authorized
          THEN /\ Respond(r, req[r], 403)
               /\ UNCHANGED <<RATE_LIMIT_STORAGE, admitted>>
          ELSE \E code \in {200, 422} :
                  Check(r, req[r],
                        [req[r] EXCEPT !.at = "track_finish",
                                       !.handled = (code # 422),
                                       !.status_code = code])
    /\ UNCHANGED <<storeVars, taskVars, now, settings, nidVars, scenario>>

\* list_clients: a read of the clients table.
list_clients(r) ==
    /\ req[r].at = "route"
    /\ req[r].route = [path |-> CLIENTS, method |-> GET]
    /\ Respond(r, [req[r] EXCEPT !.handled = TRUE], 200)
    /\ UNCHANGED <<storeVars, taskVars, now, settings, nidVars, RATE_LIMIT_STORAGE,
                   admitted, scenario>>

\* create_client up to the end of create_validation; value_error_handler
\* answers a ValueError with 422.
create_client(r) ==
    /\ req[r].at = "route"
    /\ req[r].route = [path |-> CLIENTS, method |-> POST]
    /\ \E data \in Payloads("ClientService") :
          LET q == [req[r] EXCEPT !.handled = TRUE, !.name = data.name]
          IN  IF validate_unique_fields(Client, data, clients, usages) = "ok"
              THEN req' = [req EXCEPT ![r] = [q EXCEPT !.at = "_create"]]
              ELSE Respond(r, q, 422)
    /\ UNCHANGED <<storeVars, taskVars, now, settings, nidVars, RATE_LIMIT_STORAGE,
                   admitted, scenario>>

\* The rest of create_client: pre_create and the insert.  An IntegrityError
\* of the store has no handler.
create_client_insert(r) ==
    /\ req[r].at = "_create"
    /\ LET row == NewRow(Client,
                         pre_create("ClientService", [name |-> req[r].name], keysIssued),
                         clients)
       IN  /\ keysIssued' = keysIssued + 1
           /\ IF IntegrityOK(Client, row, clients, clients)
              THEN /\ clients' = clients \cup {row}
                   /\ Respond(r, req[r], 200)
              ELSE /\ clients' = clients
                   /\ Unhandled(r, req[r])
    /\ UNCHANGED <<usages, tombstoned, taskVars, now, settings, nidVars, RATE_LIMIT_STORAGE,
                   admitted, scenario>>

\* dispatch after call_next: the usage row is written and the response
\* returned; a write the store refuses raises out of dispatch.
track_finish(r) ==
    /\ req[r].at = "track_finish"
    /\ \E available \in BOOLEAN :
          LET q == req[r]
              row == NewRow(ApiUsage,
                            [client_id |-> q.client, path |-> q.route.path,
                             method |-> q.route.method,
                             status_code |-> q.status_code],
                            usages)
          IN  IF available /\ IntegrityOK(ApiUsage, row, usages, clients)
              THEN /\ usages' = usages \cup {row}
                   /\ req' = [req EXCEPT ![r] =
                                [q EXCEPT !.at = "done", !.usage = @ + 1,
                                          !.returned = q.status_code]]
              ELSE /\ usages' = usages
                   /\ req' = [req EXCEPT ![r] =
                                [q EXCEPT !.at = "done", !.usage_failed = TRUE,
                                          !.returned = 500]]
    /\ UNCHANGED <<clients, keysIssued, tombstoned, taskVars, now, settings, nidVars,
                   RATE_LIMIT_STORAGE, admitted, scenario>>

\* time.time() advances.
Tick ==
    /\ now < MaxTime
    /\ now' = now + 1
    /\ UNCHANGED <<storeVars, taskVars, settings, nidVars, RATE_LIMIT_STORAGE, req,
                   admitted, scenario>>

NextReq ==
    \/ \E r \in Requests :
          \/ dispatch(r)
          \/ add_rate_limiter(r)
          \/ scan_nid(r)
          \/ list_clients(r)
          \/ create_client(r)
          \/ create_client_insert(r)
          \/ track_finish(r)
    \/ Tick

\* The service with one client registered.
InitReq == Init /\ clients = {FirstClient} /\ usages = {}

SpecReq == InitReq /\ [][NextReq]_vars

(***************************************************************************)
(* Properties of the create and update lifecycles.                         *)
(***************************************************************************)
ValidationErrors == {"KeyError", "ValueError"}

IsCall(t, verb, svc) == call[t].verb = verb /\ call[t].svc = svc

C2_SequentialClientCreate ==
    [][\A t \in Tasks :
          (IsCall(t, "create", "ClientService")' /\ pc[t] # "done" /\ pc'[t] = "done") =>
              LET name == call'[t].data.name
              IN  IF \E r \in clients : r.name = name
                  THEN outcome'[t] = "ValueError" /\ clients' = clients
                  ELSE /\ outcome'[t] = "ok"
                       /\ \E row \in clients' :
                             /\ row \notin clients
                             /\ row.name = name
                             /\ clients' = clients \cup {row}]_vars

C2_Witness ==
    \E t, u \in Tasks :
        /\ IsCall(t, "create", "ClientService") /\ outcome[t] = "ok"
        /\ IsCall(u, "create", "ClientService") /\ outcome[u] = "ValueError"
        /\ call[t].data.name = call[u].data.name
        /\ Cardinality({r \in clients : r.name = call[t].data.name}) = 1

\* C3: under every interleaving of creates, no two stored rows share a
\* primary key or a non-null value of a unique column, and a create whose
\* insert collides with a stored row ends in IntegrityError with the table
\* unchanged.
NoDuplicates(model, rows) ==
    \A r1, r2 \in rows :
        r1 # r2 =>
            /\ r1.id # r2.id
            /\ \A c \in UniqueColumns(model) : r1[c] # NULL => r1[c] # r2[c]

Collides(t) ==
    LET row == NewRow(Client, pre_create(call[t].svc, call[t].data, keysIssued), clients)
    IN  \E r \in clients :
            \/ r.id = row.id
            \/ \E c \in UniqueColumns(Client) : row[c] # NULL /\ r[c] = row[c]

C3_NoSilentDuplicate ==
    /\ [](NoDuplicates(Client, clients) /\ NoDuplicates(ApiUsage, usages))
    /\ [][\A t \in Tasks :
            (pc[t] = "pre_create" /\ pc'[t] = "done"
                /\ Model(call[t].svc) = Client /\ Collides(t)) =>
                (outcome'[t] = "IntegrityError" /\ clients' = clients)]_vars

C3_Witness ==
    \E t, u \in Tasks :
        /\ IsCall(t, "create", "ClientService") /\ outcome[t] = "ok"
        /\ IsCall(u, "create", "ClientService") /\ outcome[u] = "IntegrityError"
        /\ call[t].data.name = call[u].data.name

\* C4: a create or update whose payload holds the primary-key field is
\* rejected during validation and commits nothing.
C4_PrimaryKeyPayloadRejected ==
    \A t \in Tasks :
        (pc[t] = "done" /\ "id" \in DOMAIN call[t].data) =>
            (outcome[t] \in ValidationErrors /\ writes[t] = 0)

(***************************************************************************)
(* The acceptance scenario of the rate limiter: one caller without a key,  *)
(* window 60 s and ceiling 5, one request at a time, each run from the     *)
(* limiter middleware to the route.                                        *)
(***************************************************************************)
\* What the limiter middleware and, on /nid-egypt/, the route's dependency
\* make of one request at time t.
Through(storage, api_key, rt, t, st) ==
    LET mw == rate_limit_dependency(storage, api_key, t, st)
    IN  IF mw.status_code = 429 \/ rt.path # NID_EGYPT
        THEN mw
        ELSE rate_limit_dependency(mw.storage, api_key, t, st)

scenario_request ==
    /\ scenario.count < MaxScenarioRequests
    /\ \E rt \in Routes, host \in Hosts :
          LET res == Through(RATE_LIMIT_STORAGE, host, rt, now, settings)
          IN  /\ RATE_LIMIT_STORAGE' = res.storage
              /\ scenario' =
                    [scenario EXCEPT
                        !.count = @ + 1,
                        !.time = now,
                        !.status_code = res.status_code,
                        !.prev_admitted = scenario.last_admitted,
                        !.last_admitted =
                            IF res.status_code = 429 THEN @ ELSE now]
    /\ UNCHANGED <<storeVars, taskVars, now, settings, nidVars, req, admitted>>

\* The caller waits between requests; the clock starts at its first one.
scenario_wait ==
    /\ scenario.count > 0
    /\ scenario.waits < MaxScenarioWaits
    /\ \E dt \in Waits :
          now' = now + dt
    /\ scenario' = [scenario EXCEPT !.waits = @ + 1]
    /\ UNCHANGED <<storeVars, taskVars, settings, nidVars, RATE_LIMIT_STORAGE, req,
                   admitted>>

NextScenario == scenario_request \/ scenario_wait

InitScenario ==
    /\ clients = {FirstClient} /\ usages = {} /\ keysIssued = 1
    /\ tombstoned = {}
    /\ InitTasks
    /\ InitRequests
    /\ settings = ScenarioSettings

SpecScenario == InitScenario /\ [][NextScenario]_vars

(***************************************************************************)
(* Properties of the rate limiter and of request tracking.                 *)
(***************************************************************************)
\* The timestamps of a list that are younger than the window at time t.
Young(timestamps, t) ==
    {i \in DOMAIN timestamps : t - timestamps[i] < settings.WINDOW_SECONDS}

Checked(r) == req'[r].checks = req[r].checks + 1

\* C5: a check is rejected exactly when the identity's recorded timestamps
\* younger than WINDOW_SECONDS number MAX_REQUESTS or more, and then leaves
\* the storage as it was; otherwise it is admitted and the storage holds the
\* young timestamps followed by the current one.  Hence no list is longer
\* than MAX_REQUESTS and any MAX_REQUESTS + 1 admitted checks of an identity
\* span at least a window.
C5_CheckStep ==
    \A r \in Requests :
        IF Checked(r)
        THEN LET api_key == Identity(req[r])
                 stored == RATE_LIMIT_STORAGE[api_key]
                 rejected == req'[r].status_code = 429
             IN  /\ rejected <=>
                        Cardinality(Young(stored, now)) >= settings.MAX_REQUESTS
                 /\ rejected =>
                        /\ RATE_LIMIT_STORAGE' = RATE_LIMIT_STORAGE
                        /\ req'[r].appended = req[r].appended
                 /\ ~rejected =>
                        /\ req'[r].appended = req[r].appended + 1
                        /\ \A i \in Identities \ {api_key} :
                              RATE_LIMIT_STORAGE'[i] = RATE_LIMIT_STORAGE[i]
                        /\ RATE_LIMIT_STORAGE'[api_key] =
                              Append(SelectSeq(stored,
                                        LAMBDA x : now - x < settings.WINDOW_SECONDS),
                                     now)
        ELSE req'[r].status_code = 429 => req[r].status_code = 429

C5_Ceiling ==
    \A i \in Identities :
        /\ Len(RATE_LIMIT_STORAGE[i]) <= settings.MAX_REQUESTS
        /\ \A j, k \in DOMAIN admitted[i] :
              k - j >= settings.MAX_REQUESTS =>
                  admitted[i][k] - admitted[i][j] >= settings.WINDOW_SECONDS

C5_SlidingWindowAdmission == []C5_Ceiling /\ [][C5_CheckStep]_vars

\* A check was rejected with the identity's list full, after admitted ones.
C5_Witness ==
    \E r, o \in Requests :
        /\ req[r].status_code = 429
        /\ req[o].appended >= 1
        /\ Len(RATE_LIMIT_STORAGE[Identity(req[r])]) = settings.MAX_REQUESTS

\* C7: whatever the interleaving of the request tasks, no admitted check's
\* timestamp is lost: each identity's stored list is exactly its admitted
\* checks that are within a window of the latest one, in order, and so the
\* ceiling holds under concurrency too.
C7_NoLostTimestamp ==
    \A i \in Identities :
        LET a == admitted[i]
        IN  /\ RATE_LIMIT_STORAGE[i] =
                  SelectSeq(a, LAMBDA x : a[Len(a)] - x < settings.WINDOW_SECONDS)
            /\ Cardinality(Young(a, now)) <= settings.MAX_REQUESTS

\* Two requests of one identity, in flight together, both admitted.
C7_Witness ==
    \E r, o \in Requests :
        /\ r # o
        /\ Identity(req[r]) = Identity(req[o])
        /\ req[r].at = "route" /\ req[o].at = "route"
        /\ Len(RATE_LIMIT_STORAGE[Identity(req[r])]) = 2

\* C8: a request answered 429 by the rate limiter has not reached the
\* tracking wrapper or the route handler and has left no trace: no
\* timestamp, no store lookup, no usage record.
C8_RejectionLeavesNoTrace ==
    \A r \in Requests :
        req[r].status_code = 429 =>
            /\ ~req[r].tracked
            /\ ~req[r].lookup
            /\ req[r].appended = 0
            /\ ~req[r].handled
            /\ req[r].usage = 0

\* C9: a request that reached the tracking wrapper and is over has exactly
\* one usage record, whatever the handler did (the write itself failing
\* aside).
C9_OneUsageRecordPerRequest ==
    \A r \in Requests :
        (req[r].at = "done" /\ req[r].tracked /\ ~req[r].usage_failed) =>
            req[r].usage = 1

\* C10: when the usage write fails, the caller still gets the response the
\* handler produced.
C10_UsageFailureKeepsResponse ==
    \A r \in Requests :
        (req[r].at = "done" /\ req[r].usage_failed) =>
            req[r].returned = req[r].status_code

\* C6: with window 60 and ceiling 5, the sixth of six requests made within
\* ten seconds is rejected, and a request made a full window or more after
\* the caller's latest admitted request is admitted.
C6_WindowResetsAdmission ==
    /\ (scenario.count = 6 /\ scenario.time <= 10) =>
          scenario.status_code = 429
    /\ (/\ scenario.count > 0
        /\ scenario.prev_admitted >= 0
        /\ scenario.time - scenario.prev_admitted >= settings.WINDOW_SECONDS) =>
          scenario.status_code # 429

(***************************************************************************)
(* The six verbs of the default lifecycle.                                 *)
(***************************************************************************)
IsPrefix(s, q) == Len(s) <= Len(q) /\ s = SubSeq(q, 1, Len(s))

\* The steps of each verb as the lifecycle description lists them: Delete
\* starts at its pre-hook.
StatedSteps(verb) ==
    IF verb = "delete" THEN <<"pre_delete", "_delete", "on_delete", "return">>
    ELSE IF verb = "get"
    THEN <<"pre_get", "_get", "get_validation", "on_get", "project">>
    ELSE <<verb \o "_validation", "pre_" \o verb, "_" \o verb, "on_" \o verb,
           "project">>

\* The same with delete_validation as the first step of Delete.
LifecycleSteps(verb) ==
    IF verb = "delete"
    THEN <<"delete_validation", "pre_delete", "_delete", "on_delete", "return">>
    ELSE StatedSteps(verb)

\* C11 as stated: a successful run of any verb, Delete included, has called
\* exactly the listed steps in the listed order, each once; for Delete these
\* are pre_delete, _delete, on_delete and the return of the flag.
C11_StepsAsStated ==
    \A t \in Tasks :
        (pc[t] = "done" /\ outcome[t] = "ok") =>
            steps[t] = StatedSteps(call[t].verb)

\* C11: every verb calls its steps in its fixed order and each once, with
\* Delete = delete_validation, pre_delete, _delete, on_delete, return flag:
\* the steps a call has run are at every moment the first steps of that
\* order (no step starts before the one ahead of it has completed), and
\* after a successful run they are all of them.
C11_FixedStepOrder ==
    \A t \in Tasks :
        call[t].verb # "none" =>
            /\ IsPrefix(steps[t], LifecycleSteps(call[t].verb))
            /\ (pc[t] = "done" /\ outcome[t] = "ok") =>
                   steps[t] = LifecycleSteps(call[t].verb)

C11_Witness ==
    \E t, u \in Tasks :
        /\ call[t].verb = "delete" /\ pc[t] = "done" /\ outcome[t] = "ok"
        /\ call[u].verb \in {"create", "update", "get", "list", "filter"}
        /\ pc[u] = "done" /\ outcome[u] = "ok"
        /\ steps[u] = LifecycleSteps(call[u].verb)

\* The primary key names no row of the table the service works on.
Absent(svc, pk) == ~ \E r \in Rows(Model(svc)) : r.id = pk

\* C12: a delete whose primary key resolves to no record completes at once:
\* it returns deleted = False, raises nothing and leaves every table as it
\* was, whether it is the first such call or a repetition of one.
C12_DeleteAbsentIsNoOp ==
    [][\A t \in Tasks :
          (pc[t] = "idle" /\ call'[t].verb = "delete"
             /\ Absent(call'[t].svc, call'[t].pk)) =>
              /\ pc'[t] = "done"
              /\ outcome'[t] = "ok"
              /\ result'[t].flag = FALSE
              /\ writes'[t] = 0
              /\ storeVars' = storeVars]_vars

C12_Witness ==
    \E t, u \in Tasks :
        /\ t # u
        /\ call[t].verb = "delete" /\ call[u].verb = "delete"
        /\ call[t].svc = call[u].svc /\ call[t].pk = call[u].pk
        /\ Absent(call[t].svc, call[t].pk)
        /\ pc[t] = "done" /\ pc[u] = "done"
        /\ outcome[t] = "ok" /\ outcome[u] = "ok"
        /\ ~ result[t].flag /\ ~ result[u].flag

\* C13: a finished delete whose primary key resolved to a stored record has
\* removed that record, run on_delete and returned deleted = True, so that
\* the key no longer resolves.
C13_DeleteRemovesRecord ==
    \A t \in Tasks :
        (call[t].verb = "delete" /\ pc[t] = "done" /\ inst[t] # NoInstance) =>
            /\ outcome[t] = "ok"
            /\ result[t].flag
            /\ steps[t] = LifecycleSteps("delete")
            /\ inst[t] \notin Rows(Model(call[t].svc))

\* C14: an update that passed its validation and whose primary key resolved
\* to no record ends in the not-found error (the KeyError Retrieve raises
\* for such a key) and has written nothing.
C14_UpdateAbsentIsNotFound ==
    \A t \in Tasks :
        (call[t].verb = "update" /\ pc[t] = "done"
           /\ IsPrefix(<<"update_validation", "pre_update", "_update">>, steps[t])
           /\ inst[t] = NoInstance) =>
            /\ outcome[t] = "KeyError"
            /\ writes[t] = 0

\* C15: a get whose primary key resolves to no record fails at
\* get_validation with the not-found KeyError: on_get and the projection
\* are not reached, nothing is returned and every table is as it was.  A get
\* whose key resolves returns the stored record of that key.
C15_GetChecksExistence ==
    [][\A t \in Tasks :
          (pc[t] = "idle" /\ call'[t].verb = "get") =>
              /\ storeVars' = storeVars
              /\ IF Absent(call'[t].svc, call'[t].pk)
                 THEN /\ outcome'[t] = "KeyError"
                      /\ steps'[t] = <<"pre_get", "_get", "get_validation">>
                      /\ inst'[t] = NoInstance
                 ELSE /\ outcome'[t] = "ok"
                      /\ inst'[t] \in Rows(Model(call'[t].svc))
                      /\ inst'[t].id = call'[t].pk]_vars

C15_Witness ==
    \E t, u \in Tasks :
        /\ call[t].verb = "get" /\ outcome[t] = "KeyError"
        /\ call[u].verb = "get" /\ outcome[u] = "ok" /\ inst[u].id = call[u].pk

\* The verbs whose first step is a validation that can fail.
FailedValidation(t) ==
    /\ pc[t] = "done"
    /\ call[t].verb \in {"create", "update", "filter"}
    /\ steps[t] = <<call[t].verb \o "_validation">>
    /\ outcome[t] # "ok"

\* C16: every call that failed in its validation step is answered with a
\* status of the 4xx class.
C16_ValidationFailureIs4xx ==
    \A t \in Tasks :
        FailedValidation(t) => exception_handler(outcome[t]) \in 400..499

(***************************************************************************)
(* Filtering, ordering, paging and the tombstone.                          *)
(***************************************************************************)
\* The number of rows of the page <<offset, limit>> of count rows.
PageSize(count, offset, limit) ==
    IF count <= offset THEN 0
    ELSE IF count - offset < limit THEN count - offset ELSE limit

Distinct(seq) == \A i, j \in 1..Len(seq) : seq[i] = seq[j] => i = j

\* The filter keys whose supplied value the result is held to: all of them,
\* but for the deleted_at of a record type that has this field.
HeldKeys(model, filters) ==
    DOMAIN filters \ (IF "deleted_at" \in Columns(model) THEN {"deleted_at"} ELSE {})

\* A finished Filter call was rejected in filter_validation, with nothing
\* queried or returned, exactly when a key is no attribute of the type;
\* otherwise the rows returned are stored rows equal to the supplied value
\* on every key of keys, and as many as the page holds of such rows.
FilterNarrows(t, keys) ==
    LET m == Model(call[t].svc)
        d == call[t].data
        matching ==
            {r \in Rows(m) :
                /\ \A k \in keys : r[k] = d.filters[k]
                /\ "deleted_at" \in Columns(m) \ keys => r.deleted_at = NULL}
    IN  IF \E k \in DOMAIN d.filters : k \notin Columns(m)
        THEN /\ outcome[t] = "ValueError"
             /\ steps[t] = <<"filter_validation">>
             /\ result[t] = NoResult
        ELSE /\ outcome[t] = "ok"
             /\ \A i \in 1..Len(result[t].rows) : result[t].rows[i] \in matching
             /\ Distinct(result[t].rows)
             /\ Len(result[t].rows) = PageSize(Cardinality(matching), d.offset, d.limit)

RepoVerbs == {"repo.all", "repo.filter", "repo.first", "repo.exists"}

\* The order_by names an attribute of the type.
NamesAttribute(model, order_by) ==
    /\ order_by # << >>
    /\ IF Head(order_by) = "-" THEN Name(Tail(order_by)) \in Columns(model)
       ELSE Name(order_by) \in Columns(model)

\* Call u is call t without t's unknown filter keys and without t's
\* order_by if that names no attribute, and t has one of the two.
SameWithoutUnknown(t, u) ==
    LET m == Model(call[t].svc)
        d == call[t].data
        e == call[u].data
    IN  /\ call[u].verb = call[t].verb /\ call[u].svc = call[t].svc
        /\ e.offset = d.offset /\ e.limit = d.limit
        /\ DOMAIN e.filters = DOMAIN d.filters \cap Columns(m)
        /\ \A k \in DOMAIN e.filters : e.filters[k] = d.filters[k]
        /\ e.order_by = IF NamesAttribute(m, d.order_by) THEN d.order_by ELSE << >>
        /\ \/ DOMAIN e.filters # DOMAIN d.filters
           \/ e.order_by # d.order_by

C19_LimitClampedTo100 ==
    \A t \in Tasks :
        (pc[t] = "done"
           /\ call[t].verb \in {"list", "filter", "repo.all", "repo.filter"}) =>
            Len(result[t].rows) <= le

\* C20: for a record type with a deleted_at field no List or Filter call
\* returns a record whose deleted_at is set, also when the caller's filter
\* map has a deleted_at of its own; for a type without the field List
\* raises nothing and returns the page of all stored records.
C20_TombstonesExcluded ==
    \A t \in Tasks :
        (pc[t] = "done" /\ call[t].verb \in {"list", "filter"}) =>
            LET m == Model(call[t].svc)
                rows == result[t].rows
            IN  /\ "deleted_at" \in Columns(m) =>
                       \A i \in 1..Len(rows) : rows[i].deleted_at = NULL
                /\ call[t].verb = "list" => outcome[t] = "ok"
                /\ (call[t].verb = "list" /\ "deleted_at" \notin Columns(m)) =>
                       /\ \A i \in 1..Len(rows) : rows[i] \in Rows(m)
                       /\ Distinct(rows)
                       /\ Len(rows) = PageSize(Cardinality(Rows(m)),
                                               call[t].data.offset, call[t].data.limit)

C20_Witness ==
    \E t, u \in Tasks :
        /\ call[t].verb = "filter" /\ call[t].svc = "TombstonedOps"
        /\ "deleted_at" \in DOMAIN call[t].data.filters
        /\ outcome[t] = "ok" /\ Len(result[t].rows) > 0
        /\ \E r \in tombstoned : r.deleted_at = call[t].data.filters.deleted_at
        /\ call[u].verb = "list" /\ call[u].svc = "ClientOps"
        /\ outcome[u] = "ok" /\ Len(result[u].rows) = Cardinality(clients)

(***************************************************************************)
(* Clients, their keys and their usage records.                            *)
(***************************************************************************)
\* C21: no two stored clients share an api_key, and a ClientService create
\* that succeeds returns the client it stored with the key pre_create
\* generated for this call, a key no client stored before the call has.
C21_ApiKeyUniqueAndGenerated ==
    /\ [](\A c, d \in clients :
              (c.api_key # NULL /\ c.api_key = d.api_key) => c = d)
    /\ [][\A t \in Tasks :
              (IsCall(t, "create", "ClientService")
                 /\ outcome[t] = "none" /\ outcome'[t] = "ok") =>
                  /\ inst'[t] \in clients' \ clients
                  /\ inst'[t].api_key = keysIssued'
                  /\ keysIssued' = keysIssued + 1
                  /\ inst'[t].api_key # NULL
                  /\ \A c \in clients : c.api_key # inst'[t].api_key]_vars

C21_Witness ==
    \E t, u \in Tasks :
        /\ t # u
        /\ IsCall(t, "create", "ClientService") /\ outcome[t] = "ok"
        /\ IsCall(u, "create", "ClientService") /\ outcome[u] = "ok"
        /\ inst[t].api_key # inst[u].api_key
        /\ {inst[t], inst[u]} \subseteq clients

\* C22: every usage record that names a client names a stored one, at all
\* times; a delete of a client removes the client and every usage record
\* that references it, and keeps the usage records without a reference.
C22_UsagesReferenceStoredClients ==
    /\ [](\A u \in usages :
              u.client_id # NULL => \E c \in clients : c.id = u.client_id)
    /\ [][\A t \in Tasks :
              (pc[t] = "commit_delete" /\ pc'[t] = "done"
                 /\ Model(call[t].svc) = Client) =>
                  /\ \A c \in clients' : c.id # inst[t].id
                  /\ \A u \in usages' : u.client_id # inst[t].id
                  /\ \A u \in usages :
                        (u.client_id = NULL \/ u.client_id # inst[t].id) =>
                            u \in usages']_vars

C22_Witness ==
    \E t \in Tasks :
        /\ call[t].verb = "repo.delete" /\ call[t].svc = "ClientOps"
        /\ outcome[t] = "ok" /\ inst[t] = FirstClient
        /\ FirstClient \notin clients
        /\ FirstUsage \notin usages
        /\ AnonymousUsage \in usages

\* C24: a finished BaseORM.delete that was given a primary key resolving to
\* no record has returned False without raising and written nothing; one
\* given a resolved instance or a resolving key has returned True and the
\* record is gone.
C24_RepoDeleteReturnsFlag ==
    \A t \in Tasks :
        (call[t].verb = "repo.delete" /\ pc[t] = "done" /\ call[t].pk # NULL) =>
            /\ outcome[t] = "ok"
            /\ IF inst[t] = NoInstance
               THEN ~ result[t].flag /\ writes[t] = 0
               ELSE result[t].flag /\ inst[t] \notin Rows(Model(call[t].svc))

\* The client a presented key stands for: the stored client with that
\* api_key, or none for no key or a key no client has.
ClientOfKey(api_key) ==
    IF api_key # NULL /\ \E c \in clients : c.api_key = api_key
    THEN (CHOOSE c \in clients : c.api_key = api_key).id
    ELSE NULL

\* C23: every request whose usage write the store accepts has left one
\* usage record, which references the client whose api_key was presented
\* and no client when no key was presented or no client has the key;
\* requests without a client are recorded like the others.
C23_UsageNamesPresentedClient ==
    \A r \in Requests :
        (req[r].at = "done" /\ ~ req[r].usage_failed) =>
            /\ req[r].client = ClientOfKey(req[r].api_key)
            /\ req[r].usage = 1

(***************************************************************************)
(* The validation endpoint on one request body: the request model is       *)
(* validated (NationalIDRequest.validate_id_format), then the handler      *)
(* calls EgyptianNationalIDValidator.validate_and_extract.                 *)
(***************************************************************************)
\* What the endpoint's dependencies can come to: both pass, or
\* verify_service_key refuses the token, or rate_limit_dependency refuses the
\* caller.  Tokens and the limiter's storage are outside this part.
Dependencies == {"passed", "verify_service_key", "rate_limit_dependency"}

\* The dependencies are solved and the body validated before the handler is
\* called: an HTTPException of a dependency is answered with its status, a
\* ValueError of the validator with 422, and in each case the handler does
\* not run.
validate_request ==
    /\ nid.at = "received"
    /\ \E solved \in Dependencies :
          LET v == validate_id_format(body)
          IN  nid' = IF solved = "verify_service_key"
                     THEN [nid EXCEPT !.at = "done", !.status_code = 403]
                     ELSE IF solved = "rate_limit_dependency"
                     THEN [nid EXCEPT !.at = "done", !.status_code = 429]
                     ELSE IF v.raised
                     THEN [nid EXCEPT !.at = "done", !.status_code = 422]
                     ELSE [nid EXCEPT !.at = "scan_nid", !.national_id = v.value]
    /\ UNCHANGED <<storeVars, taskVars, now, settings, RATE_LIMIT_STORAGE, req,
                   admitted, scenario, body, today>>

scan_nid_handler ==
    /\ nid.at = "scan_nid"
    /\ nid' = [nid EXCEPT !.at = "done", !.status_code = 200, !.invoked = TRUE,
                          !.data = validate_and_extract(nid.national_id, today)]
    /\ UNCHANGED <<storeVars, taskVars, now, settings, RATE_LIMIT_STORAGE, req,
                   admitted, scenario, body, today>>

NextNid == validate_request \/ scan_nid_handler

\* The bodies tried: every string made of a first digit, a two-digit year,
\* month and day, a governorate code and five closing digits from the sets
\* below, and strings that are not fourteen digits.
ExampleId ==
    <<"2", "9", "5", "0", "1", "0", "1", "1", "2", "3", "4", "5", "6", "7">>

FirstDigits == {"1", "2", "3", "4"}
YearDigits  == {<<"0", "0">>, <<"2", "6">>, <<"2", "7">>, <<"9", "5">>}
MonthDigits == {<<"0", "1">>, <<"0", "2">>, <<"1", "1">>, <<"1", "3">>}
DayDigits   == {<<"0", "0">>, <<"0", "1">>, <<"0", "2">>, <<"0", "3">>,
                <<"2", "9">>, <<"3", "1">>}
GovDigits   == {<<"0", "1">>, <<"1", "2">>, <<"3", "6">>}
LastDigits  == {<<"3", "4", "5", "6", "7">>, <<"1", "2", "3", "4", "7">>,
                <<"0", "0", "0", "1", "0">>}

NationalIds ==
    {<<c>> \o yy \o mm \o dd \o gg \o ss :
        c \in FirstDigits, yy \in YearDigits, mm \in MonthDigits,
        dd \in DayDigits, gg \in GovDigits, ss \in LastDigits}

Malformed ==
    {SubSeq(ExampleId, 1, 13),
     ExampleId \o <<"8">>,
     [ExampleId EXCEPT ![5] = "x"],
     [ExampleId EXCEPT ![5] = " "],
     <<" ">> \o SubSeq(ExampleId, 1, 13) \o <<" ">>,
     <<" ", " ">>,
     << >>}

Padded == {<<" ">> \o ExampleId \o <<" ", " ">>}

Bodies == NationalIds \cup Malformed \cup Padded

Todays == {<<2026, 11, 2>>, <<2051, 1, 1>>}

InitNid ==
    /\ InitStore /\ InitTasks /\ settings = Settings
    /\ now = 0
    /\ RATE_LIMIT_STORAGE = [i \in Identities |-> << >>]
    /\ req = [r \in Requests |-> NoRequest]
    /\ admitted = [i \in Identities |-> << >>]
    /\ scenario = NoScenario
    /\ body \in Bodies
    /\ today \in Todays
    /\ nid = [NoValidation EXCEPT !.at = "received"]

SpecNid == InitNid /\ [][NextNid]_vars

\* The messages of a result's errors list.
Errors(d) == {d.errors[i] : i \in 1..Len(d.errors)}

\* C25: for every 14-digit string the handler passes to validate_and_extract,
\* a first digit 2 gives century 1900 and a first digit 3 gives century 2000;
\* with any other first digit the call still returns (the request is answered
\* 200), century is left unset, the extraction failure is in the errors list
\* and is_valid is false.
C25_CenturyFromFirstDigit ==
    nid.invoked =>
        LET first_digit == nid.national_id[1]
            data == nid.data
        IN  /\ nid.at = "done" /\ nid.status_code = 200
            /\ first_digit = "2" => data.century = 1900
            /\ first_digit = "3" => data.century = 2000
            /\ first_digit \notin {"2", "3"} =>
                   /\ data.century = NULL
                   /\ "Failed to extract metadata" \in Errors(data)
                   /\ "Invalid date of birth" \in Errors(data)
                   /\ ~ data.is_valid

\* A string that opens with 4, and with a month, day and governorate code
\* that would do, came back invalid with no century.
C25_Witness ==
    /\ nid.invoked
    /\ nid.national_id[1] = "4"
    /\ nid.data.century = NULL
    /\ nid.data.location # NoLocation
    /\ Len(nid.data.errors) = 2

\* C26 (as stated): validating "29501011234567" yields century 1900, birth
\* date 1995-01-01, governorate code "01" named "Cairo", sequence digits
\* "1234" with the gender of the parity of 1234, and is_valid true.
C26_ExampleIsCairo1234 ==
    (nid.invoked /\ nid.national_id = ExampleId) =>
        /\ nid.data.century = 1900
        /\ nid.data.date_of_birth.full_date = <<1995, 1, 1>>
        /\ nid.data.location = [governorate_code |-> <<"0", "1">>,
                                governorate_name |-> "Cairo"]
        /\ nid.data.sequence_number = <<"1", "2", "3", "4">>
        /\ nid.data.gender = (IF 1234 % 2 = 1 THEN "male" ELSE "female")
        /\ nid.data.is_valid

\* C26: validating "29501011234567" yields century 1900, birth date
\* 1995-01-01, governorate code "12" named "Dakahlia" (the eighth and ninth
\* digits), sequence digits "3456" (the tenth to thirteenth) with the gender
\* of the parity of 3456, female, no errors and is_valid true.
C26_ExampleIsDakahlia3456 ==
    (nid.invoked /\ nid.national_id = ExampleId) =>
        /\ nid.data.century = 1900
        /\ nid.data.date_of_birth.full_date = <<1995, 1, 1>>
        /\ nid.data.date_of_birth.year = 1995
        /\ nid.data.date_of_birth.month = 1
        /\ nid.data.date_of_birth.day = 1
        /\ nid.data.location = [governorate_code |-> <<"1", "2">>,
                                governorate_name |-> "Dakahlia"]
        /\ nid.data.sequence_number = <<"3", "4", "5", "6">>
        /\ nid.data.gender = (IF 3456 % 2 = 1 THEN "male" ELSE "female")
        /\ nid.data.gender = "female"
        /\ nid.data.errors = << >>
        /\ nid.data.is_valid

\* The example was sent, with blanks around it, and answered.
C26_Witness ==
    /\ nid.invoked /\ nid.at = "done"
    /\ nid.national_id = ExampleId
    /\ body # ExampleId
    /\ nid.data.is_valid

\* What each sub-extraction gives on its own for the string the handler holds.
OwnDate     == extract_date_of_birth(nid.national_id, today)
OwnLocation == extract_governorate(nid.national_id)
OwnCentury  == extract_century(nid.national_id)

\* C27: for every 14-digit string, validate_and_extract returns (it never
\* raises), each field of the result is what its own sub-extraction gives
\* whether or not another one failed, and is_valid is true exactly when the
\* errors list is empty, which is exactly when birth date, governorate,
\* gender and century were all extracted and the birth date is neither in
\* the future nor more than 150 years back.
C27_ValidIffAllExtracted ==
    nid.invoked =>
        LET data == nid.data
        IN  /\ nid.at = "done" /\ nid.status_code = 200
            /\ data.national_id = nid.national_id
            /\ data.date_of_birth = (IF OwnDate.raised THEN NoDate ELSE OwnDate.value)
            /\ data.location = (IF OwnLocation.raised THEN NoLocation
                                ELSE OwnLocation.value)
            /\ data.gender \in {"male", "female"}
            /\ data.sequence_number = Slice(nid.national_id, 9, 13)
            /\ data.century = (IF OwnCentury.raised THEN NULL ELSE OwnCentury.value)
            /\ data.is_valid <=> (data.errors = << >>)
            /\ data.is_valid <=>
                   /\ data.date_of_birth # NoDate
                   /\ data.location # NoLocation
                   /\ data.gender # ""
                   /\ data.century # NULL
                   /\ ~ TupleLess(today, data.date_of_birth.full_date)
                   /\ data.date_of_birth.age <= 150

\* A string whose date does not exist (29 February 1900) and whose
\* governorate code does: the birth date failed, the governorate, gender,
\* sequence and century were extracted all the same.
C27_Witness ==
    /\ nid.invoked /\ nid.at = "done"
    /\ ~ nid.data.is_valid
    /\ Slice(nid.national_id, 0, 7) = <<"2", "0", "0", "0", "2", "2", "9">>
    /\ nid.data.date_of_birth = NoDate
    /\ nid.data.location # NoLocation
    /\ nid.data.century = 1900
    /\ nid.data.gender = "male"
    /\ Len(nid.data.errors) = 1

\* The body, with the blanks around it trimmed, is exactly fourteen digits.
FourteenDigits ==
    LET v == strip(body)
    IN  /\ Len(v) = 14
        /\ \A i \in 1..14 : v[i] \in Digits

\* C28 (as stated): every request to the validation endpoint whose
\* national_id, trimmed, is not exactly 14 digits is rejected as a
\* request-shape failure (422), and validate_and_extract is never invoked.
C28_MalformedIsShapeFailure ==
    ~ FourteenDigits =>
        /\ ~ nid.invoked
        /\ nid.at \in {"received", "done"}
        /\ nid.at = "done" => nid.status_code = 422

\* C28: every request to the validation endpoint whose national_id, trimmed,
\* is not exactly 14 digits is rejected and validate_and_extract is never
\* invoked: as a request-shape failure (422) when the endpoint's
\* dependencies passed, and with the status of the dependency that refused
\* it (403 for the service token, 429 for the rate limit) otherwise.
C28_MalformedNeverReachesExtractor ==
    /\ ~ FourteenDigits =>
           /\ ~ nid.invoked
           /\ nid.data = NoData
           /\ nid.at \in {"received", "done"}
           /\ nid.at = "done" => nid.status_code \in {403, 422, 429}
    /\ [][(~ FourteenDigits /\ nid.at = "received" /\ nid'.status_code \notin {403, 429})
              => nid'.at = "done" /\ nid'.status_code = 422]_vars

\* Thirteen digits between two blanks were refused with 422.
C28_Witness ==
    /\ body = <<" ">> \o SubSeq(ExampleId, 1, 13) \o <<" ">>
    /\ nid.at = "done"
    /\ nid.status_code = 422
    /\ ~ nid.invoked

\* C29: each request consumes exactly one slot of its identity's window: no
\* request records more than one timestamp, a request that ran its limiter
\* checks and was not answered 429 has recorded exactly one, on /nid-egypt/
\* too, and so a request is answered 429 only after MAX_REQUESTS other
\* requests of its identity were admitted.
C29_OneSlotPerRequest ==
    \A r \in Requests :
        /\ req[r].appended <= 1
        /\ (req[r].at \in {"track_finish", "done"} /\ req[r].status_code # 429)
               => req[r].appended = 1
        /\ req[r].status_code = 429 =>
               Cardinality({o \in Requests \ {r} :
                               /\ Identity(req[o]) = Identity(req[r])
                               /\ req[o].appended >= 1}) >= settings.MAX_REQUESTS

\* Some stored row holds the payload's value of a unique column.
HoldsUniqueValue(t) ==
    LET m == Model(call[t].svc)
    IN  \E column \in UniqueColumns(m) :
            /\ Get(call[t].data, column) # NULL
            /\ \E r \in Table(m, clients, usages) :
                   r[column] = Get(call[t].data, column)

\* C30: when update_validation reaches validate_unique_fields and any stored
\* row holds the payload's value of a unique column, the row being updated
\* included, the Update ends there with ValueError and the store is as it
\* was; an Update so rejected has written nothing.
C30_UpdateCollidesWithOwnValue ==
    /\ [](\A t \in Tasks :
              (call[t].verb = "update" /\ outcome[t] = "ValueError") =>
                  /\ writes[t] = 0
                  /\ inst[t] = NoInstance
                  /\ "_update" \notin {steps[t][i] : i \in 1..Len(steps[t])})
    /\ [][\A t \in Tasks :
              (/\ call[t].verb = "update"
               /\ pc[t] = "validate_unique_fields"
               /\ pc'[t] # pc[t]
               /\ HoldsUniqueValue(t)) =>
                  /\ outcome'[t] = "ValueError"
                  /\ pc'[t] = "done"
                  /\ UNCHANGED storeVars]_vars

\* Client 1, the only holder of name 1, was updated with name 1 and refused.
C30_Witness ==
    \E t \in Tasks :
        /\ call[t].verb = "update" /\ call[t].svc = "ClientOps"
        /\ call[t].pk = 1
        /\ Get(call[t].data, "name") = 1
        /\ \A r \in clients : r.name = 1 <=> r.id = 1
        /\ FirstClient \in clients
        /\ outcome[t] = "ValueError"
        /\ writes[t] = 0

(***************************************************************************)
(* Updates of several fields at once, made one after the other on a store  *)
(* with two clients and two usage records.                                 *)
(***************************************************************************)
\* model_dump() of the update schemas: every declared field, None where the
\* caller sent nothing.
UpdatePayloads(svc) ==
    IF svc = "ClientOps"
    THEN {[name |-> NULL, api_key |-> NULL], [name |-> NULL, api_key |-> 3],
          [name |-> 3, api_key |-> NULL], [name |-> 3, api_key |-> 3],
          [id |-> 3, name |-> NULL, api_key |-> NULL]}
    ELSE {[client_id |-> 1, path |-> NULL, method |-> NULL, status_code |-> NULL],
          [client_id |-> 2, path |-> NULL, method |-> NULL, status_code |-> 500],
          [client_id |-> 2, path |-> NID_EGYPT, method |-> POST, status_code |-> NULL]}

update_fields(t) ==
    \E svc \in {"ClientOps", "ApiUsageOps"} : \E data \in UpdatePayloads(svc) :
        \E pk \in {1, 2, 3} :
            validate_relations_step(t, "update", svc, data, pk)

NextUpdate ==
    \E t \in Tasks :
        \/ Quiet /\ update_fields(t)
        \/ validation(t)
        \/ _update(t)
        \/ save(t)

SpecUpdate == InitStoreWithUsages /\ [][NextUpdate]_vars

\* The row of the table that holds this key.
Stored(table, pk) == CHOOSE r \in table : r.id = pk

ForeignKeys(model) ==
    {rel \in {Relationships(model)[i] : i \in DOMAIN Relationships(model)} :
        ~ rel.local_is_pk}

\* The payload names no row, or none that is stored, for this relation.
Unreferenced(rel, data) ==
    \/ Get(data, rel.local) = NULL
    \/ ~ \E r \in Table(rel.entity, clients, usages) :
             r[rel.remote] = Get(data, rel.local)

\* C32: validate_relations, the first step of a Create or Update, fails
\* exactly when for some relation whose local column is not the primary key
\* the payload's value is missing or null (KeyError) or names no row of the
\* related table (ValueError); a failure ends the call with the store as it
\* was.  Relations on the primary key (a client's usages) are skipped: no
\* call on clients fails here.  Hence a usage record with a null client
\* reference is rejected by Create and by Update, and writes nothing.
C32_ValidateRelations ==
    /\ [](\A t \in Tasks :
              (/\ call[t].verb \in {"create", "update"}
               /\ call[t].svc = "ApiUsageOps"
               /\ Get(call[t].data, "client_id") = NULL) =>
                  /\ pc[t] = "done"
                  /\ outcome[t] = "KeyError"
                  /\ steps[t] = <<call[t].verb \o "_validation">>
                  /\ writes[t] = 0)
    /\ [][\A t \in Tasks :
              (pc[t] = "idle" /\ pc'[t] # "idle") =>
                  LET m    == Model(call'[t].svc)
                      data == call'[t].data
                  IN  /\ call'[t].verb \in {"create", "update"}
                      /\ IF \E rel \in ForeignKeys(m) : Unreferenced(rel, data)
                         THEN /\ pc'[t] = "done"
                              /\ outcome'[t] =
                                     (IF \E rel \in ForeignKeys(m) :
                                            Get(data, rel.local) = NULL
                                      THEN "KeyError" ELSE "ValueError")
                              /\ UNCHANGED storeVars
                         ELSE /\ pc'[t] = "validate_unique_fields"
                              /\ outcome'[t] = "none"
                      /\ m = Client => pc'[t] = "validate_unique_fields"]_vars

\* A usage record was created with no client reference, another updated
\* with a reference to a client that is not stored: both were rejected.
C32_Witness ==
    \E t, u \in Tasks :
        /\ call[t].svc = "ApiUsageOps" /\ call[t].verb = "create"
        /\ call[t].data.client_id = NULL
        /\ outcome[t] = "KeyError"
        /\ call[u].svc = "ApiUsageOps" /\ call[u].verb = "update"
        /\ call[u].data.client_id = 2
        /\ outcome[u] = "ValueError"
        /\ usages = {FirstUsage}

(***************************************************************************)
(* Pages of BaseORM.all and BaseORM.filter: one query on a store that      *)
(* holds rows with equal names, at offsets within and beyond the rows.     *)
(***************************************************************************)
Offsets == {0, 1, 3, 4, 5}

PageOrders == Orders \cup {<<"id">>, <<"-", "id">>}

\* No call has been made: the queries read the store as it was set up.
NoCallYet == \A u \in Tasks : pc[u] = "idle"

NextOrder ==
    \E t \in Tasks : \E svc \in {"ClientOps", "TombstonedOps"} :
        \E offset \in Offsets : \E limit \in {2, le} : \E order_by \in PageOrders :
            \/ NoCallYet /\ all(t, svc, offset, limit, order_by)
            \/ \E filters \in {[name |-> 1], [nope |-> 1]} :
                   NoCallYet /\ where(t, svc, filters, offset, limit, order_by)

SpecOrder == InitQuery /\ [][NextOrder]_vars

\* The stored records a query is about: all of them, or those that hold
\* every value the filter map gives for a field of the record type.
Matching(t) ==
    LET m == Model(call[t].svc)
        f == call[t].data.filters
    IN  {r \in Rows(m) : \A k \in DOMAIN f \cap Columns(m) : r[k] = f[k]}

\* The field and the direction an order_by string asks for.
OrderField(order_by) ==
    IF order_by = << >> THEN ""
    ELSE IF Head(order_by) = "-" THEN Name(Tail(order_by)) ELSE Name(order_by)

Descending(order_by) == order_by # << >> /\ Head(order_by) = "-"

\* a comes strictly before b in the requested order.
Precedes(a, b, order_by) ==
    IF Descending(order_by)
    THEN a[OrderField(order_by)] > b[OrderField(order_by)]
    ELSE a[OrderField(order_by)] < b[OrderField(order_by)]

\* C33: all and filter end without error and return the records at
\* positions offset .. offset+limit-1 of the matching records in the
\* requested order: as many distinct matching records as those positions
\* hold, each at a place that its key allows (ascending for a field name,
\* descending after '-'), and none when offset is at or beyond the count.
C33_PageOfOrderedMatches ==
    \A t \in Tasks :
        (pc[t] = "done" /\ call[t].verb \in {"repo.all", "repo.filter"}) =>
            LET d       == call[t].data
                rows    == result[t].rows
                matches == Matching(t)
                n       == Cardinality(matches)
                held    == IF d.offset >= n THEN 0
                           ELSE IF d.limit < n - d.offset THEN d.limit
                           ELSE n - d.offset
            IN  /\ outcome[t] = "ok"
                /\ Len(rows) = held
                /\ d.offset >= n => rows = << >>
                /\ \A i \in 1..Len(rows) : rows[i] \in matches
                /\ \A i, j \in 1..Len(rows) : i # j => rows[i] # rows[j]
                /\ OrderField(d.order_by) \in Columns(Model(call[t].svc)) =>
                       \A i \in 1..Len(rows) :
                           /\ Cardinality({r \in matches :
                                  Precedes(r, rows[i], d.order_by)}) <= d.offset + i - 1
                           /\ Cardinality({r \in matches :
                                  ~ Precedes(rows[i], r, d.order_by)}) >= d.offset + i

\* The second and third of the four tombstone rows by descending name, two
\* of the three that are named 1.
C33_Witness ==
    \E t \in Tasks :
        /\ pc[t] = "done" /\ call[t].verb = "repo.all"
        /\ call[t].svc = "TombstonedOps"
        /\ call[t].data.order_by = <<"-", "name">>
        /\ call[t].data.offset = 1 /\ call[t].data.limit = 2
        /\ tombstoned = Tombstones
        /\ Len(result[t].rows) = 2
        /\ result[t].rows[1].name = 1 /\ result[t].rows[2].name = 1

(***************************************************************************)
(* FilterOperation's call shapes next to List: filter with a filter map,   *)
(* filter with the default filters=None, and filter_from_query_params.     *)
(***************************************************************************)
\* FilterOperation.filter called without a filter map: filters is None.
\* With a deleted_at attribute on the model, filters["deleted_at"] = None
\* is an item assignment on None (TypeError); without one, filter_validation
\* reads params.get("filters", {}), which is the None stored under the key,
\* and calls filters.keys() (AttributeError).
filter_without_map(t, svc, offset, limit, order_by) ==
    /\ pc[t] = "idle"
    /\ call' = [call EXCEPT ![t] =
                    [data |-> [order_by |-> order_by, offset |-> offset, limit |-> limit],
                     svc |-> svc, verb |-> "filter", pk |-> NULL]]
    /\ pc' = [pc EXCEPT ![t] = "done"]
    /\ IF hasattr(Model(svc), "deleted_at")
       THEN /\ steps' = [steps EXCEPT ![t] = << >>]
            /\ outcome' = [outcome EXCEPT ![t] = "TypeError"]
       ELSE /\ steps' = [steps EXCEPT ![t] = <<"filter_validation">>]
            /\ outcome' = [outcome EXCEPT ![t] = "AttributeError"]
    /\ UNCHANGED <<storeVars, writes, inst, result, reqVars>>

\* filter_from_query_params: the keyword arguments without their None
\* values are the filter map of a call of filter.
filter_from_query_params(t, svc, query_filters, offset, limit, order_by) ==
    LET m             == Model(svc)
        clean_filters == ExcludeNone(query_filters)
        f             == Injected(m, clean_filters)
    IN  /\ pc[t] = "idle"
        /\ call' = [call EXCEPT ![t] =
                        [data |-> [filters |-> query_filters, order_by |-> order_by,
                                   offset |-> offset, limit |-> limit],
                         svc |-> svc, verb |-> "filter_from_query_params",
                         pk |-> NULL]]
        /\ pc' = [pc EXCEPT ![t] = "done"]
        /\ IF filter_validation(m, f) = "ok"
           THEN /\ steps' = [steps EXCEPT ![t] =
                      <<"filter_validation", "pre_filter", "_filter", "on_filter",
                        "project">>]
                /\ result' = [result EXCEPT ![t].rows =
                                repo_filter(m, Rows(m), offset, limit, order_by, f)]
                /\ outcome' = [outcome EXCEPT ![t] = "ok"]
           ELSE /\ steps' = [steps EXCEPT ![t] = <<"filter_validation">>]
                /\ outcome' = [outcome EXCEPT ![t] = filter_validation(m, f)]
                /\ UNCHANGED result
        /\ UNCHANGED <<storeVars, writes, inst, reqVars>>

\* Query parameters as keyword arguments: given, None, or not declared.
QueryFilters ==
    {<< >>, [name |-> NULL], [name |-> 1], [id |-> NULL, name |-> 1],
     [name |-> NULL, nope |-> 1]}

NextFilter ==
    \E t \in Tasks : \E svc \in {"ClientOps", "TombstonedOps"} :
        \E p \in Pages : \E order_by \in {<< >>, <<"-", "name">>} :
            \/ list(t, svc, p[1], p[2], order_by)
            \/ filter_without_map(t, svc, p[1], p[2], order_by)
            \/ \E filters \in {<< >>, [name |-> 1]} :
                   filter(t, svc, filters, p[1], p[2], order_by)
            \/ \E query_filters \in QueryFilters :
                   filter_from_query_params(t, svc, query_filters, p[1], p[2], order_by)

SpecFilter == InitQuery /\ [][NextFilter]_vars

\* The page List returns for these parameters.
ListPage(t) ==
    repo_filter(Model(call[t].svc), Rows(Model(call[t].svc)), call[t].data.offset,
                call[t].data.limit, call[t].data.order_by, [deleted_at |-> NULL])

\* C34: FilterOperation.filter called without a filter map, for a record
\* type with or without deleted_at, completes without error and returns the
\* page List returns for the same offset, limit and order_by; and
\* filter_from_query_params ends as filter does on the parameters without
\* their null-valued entries: the same error, or the same page.
C34_FilterWithoutMapIsList ==
    \A t \in Tasks :
        /\ (/\ pc[t] = "done" /\ call[t].verb = "filter"
            /\ "filters" \notin DOMAIN call[t].data) =>
               /\ outcome[t] = "ok"
               /\ result[t].rows = ListPage(t)
        /\ (pc[t] = "done" /\ call[t].verb = "filter_from_query_params") =>
               LET m     == Model(call[t].svc)
                   clean == [k \in {j \in DOMAIN call[t].data.filters :
                                       call[t].data.filters[j] # NULL} |->
                                call[t].data.filters[k]]
                   f     == Injected(m, clean)
               IN  /\ outcome[t] = filter_validation(m, f)
                   /\ outcome[t] = "ok" =>
                          result[t].rows =
                              repo_filter(m, Rows(m), call[t].data.offset,
                                          call[t].data.limit, call[t].data.order_by, f)

====
